---- MODULE Spec2Model ----
(***************************************************************************)
(* A model of the market/metadata acquisition layer of stocksTUI:          *)
(*   - the price/session cache (market_provider.get_market_price_data,     *)
(*     "get_prices" in the design document);                               *)
(*   - the metadata cache gateway (etf_metadata_provider.get_etf_metadata) *)
(*     with its fetcher registry;                                          *)
(*   - the series cache of fred_provider.get_series_observations.          *)
(* Time is counted in minutes.  A Python dict is a function whose DOMAIN    *)
(* is the set of its keys.                                                 *)
(***************************************************************************)
EXTENDS Integers, Sequences, FiniteSets, TLC

VARIABLES
    now,            \* the wall clock, in minutes
    market_open,    \* what get_market_status()['is_open'] reports
    price_cache,    \* market_provider._price_cache: symbol -> {expiry, data}
    call,           \* the last get_prices call: its inputs, upstream traffic, result
    threads,        \* the get_prices calls in progress on concurrent threads
    written,        \* for each cached symbol, the fetch that wrote each field
    world,      \* what the document server and yfinance answer in this run
    FETCHERS,       \* etf_metadata_provider.FETCHERS, the fetcher registry
    store,          \* the rows of the cache store behind db_manager: key -> dict
    m,              \* the last get_etf_metadata call: its inputs and what it did
    f,              \* the last direct call of a fetcher, a record method or
                    \* is_supported_isin: its inputs and its outcome
    clock,          \* datetime.now(timezone.utc) of fred_provider, in seconds
    series_cache,   \* fred_provider._series_cache: series id -> (timestamp, data)
    g               \* the last get_series_observations call: inputs and outcome

vars ==
    <<now, market_open, price_cache, call, threads, written, world, FETCHERS, store, m, f,
      clock, series_cache, g>>

priceVars == <<now, market_open, price_cache, call, threads, written>>

metaVars == <<world, FETCHERS, store, m, f>>

fredVars == <<clock, series_cache, g>>

\* ------------------------------------------------------------------ bounds

\* The clock stops at MaxTime minutes.
MaxTime == 6

\* The registry is not grown beyond this many fetchers.
MaxFetchers == 5

\* The clock of the FRED provider stops at MaxFredTime seconds.
MaxFredTime == 400

\* With concurrent threads the clock stops at MaxThreadTime minutes.
MaxThreadTime == 1

\* ------------------------------------------------------- price/session cache

Symbols == {"A", "B"}

PRICE_TTL == 5

Unavailable == "Data Unavailable"

\* The requests get_prices is called with: lists of distinct symbols.
RECURSIVE Lists(_)
Lists(n) ==
    IF n = 0 THEN {<<>>}
    ELSE LET shorter == Lists(n - 1)
         IN  shorter \cup
             {Append(l, s) : l \in {x \in shorter : Len(x) = n - 1}, s \in Symbols}

Range(seq) == {seq[i] : i \in DOMAIN seq}

NoDup(seq) == \A i, j \in DOMAIN seq : seq[i] = seq[j] => i = j

Requests == {l \in Lists(Cardinality(Symbols)) : NoDup(l)}

\* What the upstream provider quotes for a symbol at a time.
Quote(s, t) ==
    [symbol |-> s, description |-> s,
     price |-> t + 1 + (IF s = "A" THEN 100 ELSE 200)]

\* The record that stands for a symbol whose fetch failed.
UnavailableRecord(s) == [symbol |-> s, description |-> Unavailable, price |-> 0]

\* Fault: the market-closed rule is forgotten; only the expiry counts.
IsFresh_ExpiryOnly(cache, s, force, t, open) ==
    /\ ~force
    /\ s \in DOMAIN cache
    /\ t < cache[s].expiry

\* Fault: force_refresh is ignored.
IsFresh_IgnoreForce(cache, s, force, t, open) ==
    /\ s \in DOMAIN cache
    /\ (t < cache[s].expiry \/ ~open)

\* The freshness check: an entry exists and it is unexpired or the market is
\* closed; force_refresh bypasses the cache.
IsFresh(cache, s, force, t, open) ==
    /\ ~force
    /\ s \in DOMAIN cache
    /\ (t < cache[s].expiry \/ ~open)

\* The symbols that fail the freshness check, in request order.
ToFetch(cache, symbols, force, t, open) ==
    SelectSeq(symbols, LAMBDA s : ~IsFresh(cache, s, force, t, open))

\* What the upstream delivered for each symbol of one request: a record, or
\* NoData for a symbol it has nothing for.
NoData == [symbol |-> "", description |-> "", price |-> 0]

Fetched(asked, bad, t) ==
    [s \in Range(asked) |-> IF s \in bad THEN NoData ELSE Quote(s, t)]

\* The single batch request: it raises as a whole, or answers per symbol.
BatchResponse(to_fetch, raises, bad, t) ==
    IF raises THEN <<>> ELSE Fetched(to_fetch, bad, t)

\* Fault: a failed batch is not retried symbol by symbol.
Fallback_None(to_fetch, raises) == <<>>

\* Fault: the fallback goes over the symbols a second time.
Fallback_Twice(to_fetch, raises) == IF raises THEN to_fetch \o to_fetch ELSE <<>>

\* The per-symbol fallback runs only when the batch request itself failed,
\* over the symbols of that batch.
Fallback(to_fetch, raises) == IF raises THEN to_fetch ELSE <<>>

\* What was delivered in the end: by the batch, or one by one.
Delivered(batch_resp, single_resp) ==
    [s \in DOMAIN batch_resp \cup DOMAIN single_resp |->
        IF s \in DOMAIN batch_resp THEN batch_resp[s] ELSE single_resp[s]]

Succeeded(resp) == {s \in DOMAIN resp : resp[s] # NoData}

\* A successful fetch overwrites the entry with a freshly computed expiry.
NewEntry(rec, t) == [expiry |-> t + PRICE_TTL, data |-> rec]

\* Fault: an existing entry is kept instead of being overwritten.
StoreFetched_KeepOld(cache, resp, t) ==
    [s \in DOMAIN cache \cup Succeeded(resp) |->
        IF s \in DOMAIN cache THEN cache[s] ELSE NewEntry(resp[s], t)]

\* Fault: the entry of a symbol whose fetch failed is deleted.
StoreFetched_DropFailed(cache, resp, t) ==
    [s \in (DOMAIN cache \ (DOMAIN resp \ Succeeded(resp))) \cup Succeeded(resp) |->
        IF s \in Succeeded(resp) THEN NewEntry(resp[s], t) ELSE cache[s]]

StoreFetched(cache, resp, t) ==
    [s \in DOMAIN cache \cup Succeeded(resp) |->
        IF s \in Succeeded(resp) THEN NewEntry(resp[s], t) ELSE cache[s]]

\* The record returned for a symbol: the cached one when it passed the
\* freshness check, the fetched one, or the sentinel when the fetch failed.
RecordFor(cache, to_fetch, resp, s) ==
    IF s \in Range(to_fetch)
    THEN IF s \in Succeeded(resp) THEN resp[s] ELSE UnavailableRecord(s)
    ELSE cache[s].data

\* Fault: symbols whose fetch failed are left out of the result.
BuildResult_DropFailed(cache, to_fetch, resp, symbols) ==
    LET kept == SelectSeq(symbols,
                    LAMBDA s : s \notin Range(to_fetch) \/ s \in Succeeded(resp))
    IN  [i \in DOMAIN kept |-> RecordFor(cache, to_fetch, resp, kept[i])]

\* Fault: the cached records come first, the fetched ones after them.
BuildResult_CachedFirst(cache, to_fetch, resp, symbols) ==
    LET hits == SelectSeq(symbols, LAMBDA s : s \notin Range(to_fetch))
        all  == hits \o to_fetch
    IN  [i \in DOMAIN all |-> RecordFor(cache, to_fetch, resp, all[i])]

\* One record per requested symbol, in request order.
BuildResult(cache, to_fetch, resp, symbols) ==
    [i \in DOMAIN symbols |-> RecordFor(cache, to_fetch, resp, symbols[i])]

\* The keys of a cache entry.
EntryKeys == {"expiry", "data"}

\* Bookkeeping: the fetch that assigned each key of each entry.
WrittenBy(by, symbols, keys, tag) ==
    [s \in DOMAIN by \cup symbols |->
        IF s \notin symbols THEN by[s]
        ELSE [k \in EntryKeys |->
                 IF k \in keys THEN tag
                 ELSE IF s \in DOMAIN by THEN by[s][k] ELSE [by |-> 0, at |-> 0]]]

NoCall ==
    [req |-> <<>>, force |-> FALSE, at |-> 0, open |-> TRUE,
     pre |-> <<>>, batch |-> <<>>, raised |-> FALSE, singles |-> <<>>,
     bad |-> {}, resp |-> <<>>, result |-> <<>>]

\* get_prices(symbols, force_refresh), called once the previous call has
\* returned.  raises: the batch request fails;
\* bad: the symbols the upstream has no data for.  Both are drawn only when
\* there is something to fetch.
GetPrices(symbols, force) ==
    LET to_fetch == ToFetch(price_cache, symbols, force, now, market_open)
    IN  /\ call = NoCall
        /\ \E raises \in (IF to_fetch = <<>> THEN {FALSE} ELSE BOOLEAN),
              bad \in SUBSET Range(to_fetch) :
               LET singles == Fallback(to_fetch, raises)
                   resp    == Delivered(BatchResponse(to_fetch, raises, bad, now),
                                        Fetched(singles, bad, now))
               IN  /\ price_cache' = StoreFetched(price_cache, resp, now)
                   /\ written' = WrittenBy(written, Succeeded(resp), EntryKeys,
                                           [by |-> 0, at |-> now])
                   /\ call' = [req |-> symbols, force |-> force, at |-> now,
                               open |-> market_open, pre |-> price_cache,
                               batch |-> to_fetch, raised |-> raises,
                               singles |-> singles, bad |-> bad, resp |-> resp,
                               result |-> BuildResult(price_cache, to_fetch, resp,
                                                      symbols)]
                   /\ UNCHANGED <<now, market_open, threads, metaVars, fredVars>>

\* The caller has taken the result: the record of the call is dropped.
PriceReturn ==
    /\ call # NoCall
    /\ call' = NoCall
    /\ UNCHANGED <<now, market_open, price_cache, threads, written, metaVars, fredVars>>

\* The environment, between calls: time passes, the market opens and closes.
Tick ==
    /\ call = NoCall
    /\ now < MaxTime
    /\ now' = now + 1
    /\ UNCHANGED <<market_open, price_cache, call, threads, written, metaVars, fredVars>>

MarketOpens ==
    /\ call = NoCall
    /\ ~market_open
    /\ market_open' = TRUE
    /\ UNCHANGED <<now, price_cache, call, threads, written, metaVars, fredVars>>

MarketCloses ==
    /\ call = NoCall
    /\ market_open
    /\ market_open' = FALSE
    /\ UNCHANGED <<now, price_cache, call, threads, written, metaVars, fredVars>>

\* ------------------------------------------- get_prices on concurrent threads
\* A call in progress on a thread goes through the freshness check, the
\* upstream request (the only step that blocks) and one cache assignment per
\* fetched symbol; other threads and the clock move in between.

Threads == {1, 2}

Idle == [pc |-> "idle"]

\* Fault: the entry is mutated in place, one key per assignment.
WriteSteps_KeyByKey(symbols) ==
    [i \in 1..(2 * Len(symbols)) |->
        [symbol |-> symbols[(i + 1) \div 2],
         keys |-> IF i % 2 = 1 THEN {"expiry"} ELSE {"data"}]]

\* The cache assignments of a call, in order: one per fetched symbol, each
\* replacing the whole entry {expiry, data}.
WriteSteps(symbols) ==
    [i \in DOMAIN symbols |-> [symbol |-> symbols[i], keys |-> EntryKeys]]

\* One cache assignment: the keys assigned take the new entry's values.
Assign(cache, s, keys, rec, t) ==
    LET old == IF s \in DOMAIN cache THEN cache[s] ELSE [expiry |-> 0, data |-> NoData]
        new == NewEntry(rec, t)
    IN  [u \in DOMAIN cache \cup {s} |->
            IF u # s THEN cache[u]
            ELSE [k \in EntryKeys |-> IF k \in keys THEN new[k] ELSE old[k]]]

\* The thread checks freshness against the cache and the market status.
Begin(thread, symbols, force) ==
    /\ threads[thread] = Idle
    /\ threads' = [threads EXCEPT ![thread] =
                       [pc |-> "fetching", tag |-> [by |-> thread, at |-> now],
                        to_fetch |-> ToFetch(price_cache, symbols, force, now,
                                             market_open)]]
    /\ UNCHANGED <<now, market_open, price_cache, call, written, metaVars, fredVars>>

\* The upstream answers the thread: the batch, or the fallback after it.
Upstream(thread) ==
    /\ threads[thread].pc = "fetching"
    /\ LET to_fetch == threads[thread].to_fetch
       IN  \E raises \in (IF to_fetch = <<>> THEN {FALSE} ELSE BOOLEAN),
              bad \in SUBSET Range(to_fetch) :
               LET resp == Delivered(BatchResponse(to_fetch, raises, bad, now),
                                     Fetched(Fallback(to_fetch, raises), bad, now))
               IN  threads' = [threads EXCEPT ![thread] =
                       [pc |-> "writing", tag |-> threads[thread].tag, resp |-> resp,
                        todo |-> WriteSteps(SelectSeq(to_fetch,
                                     LAMBDA s : s \in Succeeded(resp)))]]
    /\ UNCHANGED <<now, market_open, price_cache, call, written, metaVars, fredVars>>

\* The thread performs its next cache assignment.
WriteStep(thread) ==
    /\ threads[thread].pc = "writing"
    /\ threads[thread].todo # <<>>
    /\ LET step == Head(threads[thread].todo)
       IN  /\ price_cache' = Assign(price_cache, step.symbol, step.keys,
                                    threads[thread].resp[step.symbol], now)
           /\ written' = WrittenBy(written, {step.symbol}, step.keys,
                                   threads[thread].tag)
    /\ threads' = [threads EXCEPT ![thread].todo = Tail(threads[thread].todo)]
    /\ UNCHANGED <<now, market_open, call, metaVars, fredVars>>

\* The thread returns its result.
Finish(thread) ==
    /\ threads[thread].pc = "writing"
    /\ threads[thread].todo = <<>>
    /\ threads' = [threads EXCEPT ![thread] = Idle]
    /\ UNCHANGED <<now, market_open, price_cache, call, written, metaVars, fredVars>>

\* ---------------------------------------------------------- Python values
\* A Python value is boxed: None is the empty tuple, any other value v is <<v>>.
\* The outcome of a call is a boxed value or a raised exception, the pair
\* <<"raise", class>>.
\* A str that the code takes apart (an identifier, a quote type) is a sequence
\* of characters; other strings are opaque; a float is an integer count of a
\* stated unit.

None == <<>>

Some(v) == <<v>>

Raised(cls) == <<"raise", cls>>

IsRaised(r) == Len(r) = 2

\* Fault: the except clause is missing.
CatchNothing(r) == r

\* try: ... except Exception: return None
CatchAll(r) == IF IsRaised(r) THEN None ELSE r

\* try: ... except cls: (fall through to) return None
CatchOnly(cls, r) == IF IsRaised(r) /\ r[2] = cls THEN None ELSE r

Lowers == <<"a", "b", "c", "d", "e", "f", "g", "h", "i", "j", "k", "l", "m",
            "n", "o", "p", "q", "r", "s", "t", "u", "v", "w", "x", "y", "z">>

Uppers == <<"A", "B", "C", "D", "E", "F", "G", "H", "I", "J", "K", "L", "M",
            "N", "O", "P", "Q", "R", "S", "T", "U", "V", "W", "X", "Y", "Z">>

UpperOf == [c \in {Lowers[i] : i \in DOMAIN Lowers} |->
               Uppers[CHOOSE i \in DOMAIN Lowers : Lowers[i] = c]]

LowerOf == [c \in {Uppers[i] : i \in DOMAIN Uppers} |->
               Lowers[CHOOSE i \in DOMAIN Uppers : Uppers[i] = c]]

UpperChar(c) == IF c \in DOMAIN UpperOf THEN UpperOf[c] ELSE c

LowerChar(c) == IF c \in DOMAIN LowerOf THEN LowerOf[c] ELSE c

\* str.upper(), str.lower()
Upper(s) == [i \in DOMAIN s |-> UpperChar(s[i])]

Lower(s) == [i \in DOMAIN s |-> LowerChar(s[i])]

\* str.strip(): leading and trailing whitespace removed
RECURSIVE LStrip(_)
LStrip(s) ==
    IF s # <<>> /\ Head(s) = " " THEN LStrip(Tail(s)) ELSE s

RECURSIVE RStrip(_)
RStrip(s) ==
    IF s # <<>> /\ s[Len(s)] = " " THEN RStrip(SubSeq(s, 1, Len(s) - 1)) ELSE s

Strip(s) == RStrip(LStrip(s))

\* str.startswith(prefix)
StartsWith(s, prefix) ==
    /\ Len(s) >= Len(prefix)
    /\ SubSeq(s, 1, Len(prefix)) = prefix

\* bool(v) of an optional str
Truthy(v) == v # None /\ v[1] # <<>>

\* bool(v) of an optional str kept opaque
TruthyStr(v) == v # None /\ v[1] # ""

\* bool(v) of an optional number
TruthyNum(v) == v # None /\ v[1] # 0

\* a or b
Or(a, b) == IF Truthy(a) THEN a ELSE b

OrStr(a, b) == IF TruthyStr(a) THEN a ELSE b

\* dict.get(key)
Get(d, k) == IF k \in DOMAIN d THEN d[k] ELSE None

\* dict.update(other)
Update(d, other) ==
    [k \in DOMAIN d \cup DOMAIN other |-> IF k \in DOMAIN other THEN other[k] ELSE d[k]]

\* round(x, 4) of a float given in units of 1e-5, in units of 1e-4
\* (round-half-even)
Round4(x) ==
    LET q == x \div 10
        r == x % 10
    IN  IF r > 5 \/ (r = 5 /\ q % 2 = 1) THEN q + 1 ELSE q

\* f"{x:.2f}" of a float given in units of 1e-3, in hundredths
Fixed2(x) ==
    LET q == x \div 10
        r == x % 10
    IN  IF r > 5 \/ (r = 5 /\ q % 2 = 1) THEN q + 1 ELSE q

\* ------------------------------------------------------------- ETFMetadata

Fields == {"isin", "ticker", "name", "ter", "ongoing_charges", "replication",
           "distribution", "fund_size_mln", "fund_currency", "fund_family",
           "inception_date", "risk_level", "source_url"}

\* ETFMetadata(isin=isin, **given): the fields not given default to None.
\* stock_info is the attribute _stock_info (None: the attribute is not set).
ETFMetadata(isin, given) ==
    [k \in Fields \cup {"stock_info"} |->
        IF k = "isin" THEN isin
        ELSE IF k \in DOMAIN given THEN given[k] ELSE None]

\* ETFMetadata.to_dict
to_dict(self) ==
    LET d == [k \in Fields |-> self[k]]
    IN  IF self.stock_info # None THEN Update(d, self.stock_info[1]) ELSE d

\* Fault: every key is passed to the constructor, which rejects unknown ones.
from_dict_raises_unfiltered(data) ==
    "isin" \notin DOMAIN data \/ DOMAIN data \ Fields # {}

\* ETFMetadata.from_dict: cls(**{the recognized keys}); isin has no default.
from_dict_raises(data) == "isin" \notin DOMAIN data

from_dict(data) ==
    ETFMetadata(Get(data, "isin"),
                [k \in (DOMAIN data \cap Fields) \ {"isin"} |-> data[k]])

\* The outcome of ETFMetadata.from_dict(data): the record, or TypeError.
from_dict_call(data) ==
    IF from_dict_raises(data) THEN Raised("TypeError") ELSE Some(from_dict(data))

\* ------------------------------------------------------ upstream services
\* What a fund document says, as the findings of the parser's regular
\* expressions: name is group(1) of the name pattern; ter[i] and risk[i] are
\* group(1) of the i-th TER and risk pattern (None: no match); the four flags
\* say whether the word occurs.
TextFull ==
    [blank |-> FALSE,
     name |-> Some(<<" ", "F", "T", "S", "E">>),
     ter |-> <<Some(<<"0", ".", "1", "9">>), None, None>>,
     risk |-> <<Some("4"), None>>,
     accumulating |-> TRUE, distributing |-> FALSE,
     physical |-> TRUE, synthetic |-> FALSE]

TextNoTer ==
    [blank |-> FALSE,
     name |-> Some(<<"F", "T", "S", "E">>),
     ter |-> <<None, None, None>>,
     risk |-> <<Some("4"), None>>,
     accumulating |-> FALSE, distributing |-> TRUE,
     physical |-> FALSE, synthetic |-> FALSE]

\* A text without any character.
TextBlank ==
    [blank |-> TRUE, name |-> None, ter |-> <<None, None, None>>,
     risk |-> <<None, None>>,
     accumulating |-> FALSE, distributing |-> FALSE,
     physical |-> FALSE, synthetic |-> FALSE]

\* An HTTP response of the document server: status, the first four bytes of
\* the content, and the outcome of importing pypdf and reading the content
\* with it: the text, or the exception raised.
Doc404 == [status |-> 404, head |-> "<htm", pages |-> Raised("PdfReadError")]

DocNotPdf == [status |-> 200, head |-> "<htm", pages |-> Raised("PdfReadError")]

DocNoPypdf == [status |-> 200, head |-> "%PDF", pages |-> Raised("ImportError")]

DocUnreadable == [status |-> 200, head |-> "%PDF", pages |-> Raised("PdfReadError")]

DocBlank == [status |-> 200, head |-> "%PDF", pages |-> Some(TextBlank)]

DocNoTer == [status |-> 200, head |-> "%PDF", pages |-> Some(TextNoTer)]

DocFull == [status |-> 200, head |-> "%PDF", pages |-> Some(TextFull)]

Docs == {Doc404, DocNotPdf, DocNoPypdf, DocUnreadable, DocBlank, DocNoTer, DocFull}

\* yfinance's info dictionary of the ticker.  Names and quote types are
\* character strings; netExpenseRatio and trailingAnnualDividendYield are in
\* units of 1e-5, trailingPE in units of 1e-3, marketCap in units of 10^4
\* dollars.
InfoETF ==
    [quoteType |-> Some(<<"E", "T", "F">>), longName |-> Some(<<"V", "O", "O">>),
     netExpenseRatio |-> Some(3000), fundFamily |-> Some("Vanguard"),
     currency |-> Some("USD"), dividendYield |-> Some(112)]

InfoEquity ==
    [quoteType |-> Some(<<"E", "Q", "U", "I", "T", "Y">>),
     longName |-> Some(<<"A", "p", "p", "l", "e">>), currency |-> Some("USD"),
     sector |-> Some("Technology"), industry |-> Some("Consumer Electronics"),
     country |-> Some("United States"), marketCap |-> Some(300000000),
     trailingPE |-> Some(28504), trailingAnnualDividendYield |-> Some(440)]

InfoEtc ==
    [quoteType |-> Some(<<"e", "t", "c">>), longName |-> Some(<<>>),
     shortName |-> Some(<<"G", "o", "l", "d">>), currency |-> Some("EUR")]

InfoNameless == [quoteType |-> Some(<<"E", "T", "F">>), currency |-> Some("USD")]

\* A fund for which no expense ratio is reported.
InfoNoRatio == [quoteType |-> Some(<<"E", "T", "F">>), longName |-> Some(<<"S">>)]

InfoNoType == [quoteType |-> None, longName |-> Some(<<"X">>)]

Infos == {InfoETF, InfoEquity, InfoEtc, InfoNameless, InfoNoRatio, InfoNoType}

\* The upstream world of one run: the document the server holds for the fund
\* IE1 and the info yfinance has for the ticker V.
Worlds == [doc : Docs, info : Infos]

\* ---------------------------------------------------------------- fetchers

\* float(s) of a decimal numeral with a point, in units of 1e-4
DigitVal(c) ==
    CASE c = "0" -> 0 [] c = "1" -> 1 [] c = "2" -> 2 [] c = "3" -> 3
      [] c = "4" -> 4 [] c = "5" -> 5 [] c = "6" -> 6 [] c = "7" -> 7
      [] c = "8" -> 8 [] c = "9" -> 9

RECURSIVE Digits(_)
Digits(s) ==
    IF s = <<>> THEN 0 ELSE 10 * Digits(SubSeq(s, 1, Len(s) - 1)) + DigitVal(s[Len(s)])

RECURSIVE Pow10(_)
Pow10(n) == IF n = 0 THEN 1 ELSE 10 * Pow10(n - 1)

Float(s) ==
    LET p    == CHOOSE i \in DOMAIN s : s[i] = "."
        frac == SubSeq(s, p + 1, Len(s))
    IN  Digits(SubSeq(s, 1, p - 1)) * Pow10(4) + Digits(frac) * Pow10(4 - Len(frac))

\* str.replace(a, b) for single characters
Replace(s, a, b) == [i \in DOMAIN s |-> IF s[i] = a THEN b ELSE s[i]]

\* requests.get(url): the response, or requests.RequestException while the
\* network is down.  The server holds a document for the fund ie1 only.
requests_get(url, w, net_up) ==
    IF ~net_up THEN Raised("RequestException")
    ELSE Some(IF url.doc = <<"i", "e", "1">> THEN w.doc ELSE Doc404)

\* Fault: the request is made outside the try block.
download_pdf_unguarded(url, w, net_up) ==
    LET got == requests_get(url, w, net_up)
    IN  IF IsRaised(got) THEN got
        ELSE IF got[1].status = 200 /\ got[1].head = "%PDF" THEN got ELSE None

\* Fault: the content is accepted by its signature, whatever the status.
download_pdf_signature_only(url, w, net_up) ==
    LET got == requests_get(url, w, net_up)
    IN  CatchOnly("RequestException",
            IF IsRaised(got) THEN got
            ELSE IF got[1].head = "%PDF" THEN got ELSE None)

\* PDFFetcherMixin._download_pdf: the content, or None.
download_pdf(url, w, net_up) ==
    LET got == requests_get(url, w, net_up)
    IN  CatchOnly("RequestException",
            IF IsRaised(got) THEN got
            ELSE IF got[1].status = 200 /\ got[1].head = "%PDF" THEN got ELSE None)

\* PDFFetcherMixin._extract_text_from_pdf: the text; None when pypdf is not
\* installed (ImportError) or the document cannot be read (any Exception).
extract_text_from_pdf(pdf_content) ==
    CatchAll(CatchOnly("ImportError", pdf_content.pages))

\* Fault: the prefix is compared without upper-casing the ISIN.
Vanguard_can_handle_case_sensitive(isin, ticker) ==
    Truthy(isin) /\ StartsWith(isin[1], <<"I", "E">>)

\* VanguardFetcher.can_handle
Vanguard_can_handle(isin, ticker) ==
    Truthy(isin) /\ StartsWith(Upper(isin[1]), <<"I", "E">>)

\* VanguardFetcher._build_url
build_url(isin) ==
    [base |-> "https://fund-docs.vanguard.com", doc |-> Lower(isin),
     rest |-> "_priipskid_en.pdf"]

\* Fault: the loop does not stop at the first match, the last match stays.
RECURSIVE FirstTer_LastWins(_, _)
FirstTer_LastWins(caps, i) ==
    IF i > Len(caps) THEN None
    ELSE LET later == FirstTer_LastWins(caps, i + 1)
         IN  IF later # None THEN later
             ELSE IF caps[i] # None THEN Some(Float(Replace(caps[i][1], ",", ".")))
             ELSE None

\* The first pattern whose match converts wins.
RECURSIVE FirstTer(_, _)
FirstTer(caps, i) ==
    IF i > Len(caps) THEN None
    ELSE IF caps[i] # None THEN Some(Float(Replace(caps[i][1], ",", ".")))
    ELSE FirstTer(caps, i + 1)

\* Fault: the number is taken without the range test.
RECURSIVE FirstRisk_Unchecked(_, _)
FirstRisk_Unchecked(caps, i) ==
    IF i > Len(caps) THEN None
    ELSE IF caps[i] # None THEN Some(DigitVal(caps[i][1]))
    ELSE FirstRisk_Unchecked(caps, i + 1)

\* The first pattern whose number is in 1..7 wins.
RECURSIVE FirstRisk(_, _)
FirstRisk(caps, i) ==
    IF i > Len(caps) THEN None
    ELSE IF caps[i] # None /\ DigitVal(caps[i][1]) >= 1 /\ DigitVal(caps[i][1]) <= 7
         THEN Some(DigitVal(caps[i][1]))
    ELSE FirstRisk(caps, i + 1)

\* Fault: the second word is looked for first.
distribution_of_second_first(text) ==
    IF text.distributing THEN Some("Distributing")
    ELSE IF text.accumulating THEN Some("Accumulating") ELSE None

\* The distribution policy: "accumulating" is looked for first.
distribution_of(text) ==
    IF text.accumulating THEN Some("Accumulating")
    ELSE IF text.distributing THEN Some("Distributing") ELSE None

\* The replication method: "physical" is looked for first.
replication_of(text) ==
    IF text.physical THEN Some("Physical")
    ELSE IF text.synthetic THEN Some("Synthetic") ELSE None

\* The record _parse_kid_text fills in before it decides what to return.
kid_metadata(text, isin, ticker, source_url) ==
    ETFMetadata(isin,
        [ticker |-> ticker, source_url |-> Some(source_url),
         fund_family |-> Some("Vanguard"),
         name |-> IF text.name # None THEN Some(Strip(text.name[1])) ELSE None,
         ter |-> FirstTer(text.ter, 1),
         risk_level |-> FirstRisk(text.risk, 1),
         distribution |-> distribution_of(text),
         replication |-> replication_of(text)])

\* Fault: the record is returned whether or not it has an expense ratio.
parse_kid_text_always(text, isin, ticker, source_url) ==
    Some(kid_metadata(text, isin, ticker, source_url))

\* VanguardFetcher._parse_kid_text
parse_kid_text(text, isin, ticker, source_url) ==
    LET metadata == kid_metadata(text, isin, ticker, source_url)
    IN  IF metadata.ter # None THEN Some(metadata) ELSE None

\* VanguardFetcher.fetch; it has no try block of its own.
Vanguard_fetch(isin, ticker, w, net_up) ==
    IF ~Truthy(isin) THEN None
    ELSE LET url         == build_url(isin[1])
             pdf_content == download_pdf(url, w, net_up)
         IN  IF IsRaised(pdf_content) THEN pdf_content
             ELSE IF pdf_content = None THEN None
             ELSE LET text == extract_text_from_pdf(pdf_content[1])
                  IN  IF IsRaised(text) THEN text
                      ELSE IF text = None \/ text[1].blank THEN None
                      ELSE parse_kid_text(text[1], isin, ticker, url)

\* yf.Ticker(ticker).info: the info of the security whose ticker is V and
\* whose ISIN is US1 (yfinance looks a security up by either), an empty
\* dictionary for any other argument; it raises while the network is down.
yf_info(ticker, w, net_up) ==
    IF ~net_up THEN Raised("Exception")
    ELSE Some(IF ticker \in {Some(<<"V">>), Some(<<"U", "S", "1">>)} THEN w.info ELSE <<>>)

yahoo_url(ticker) == [base |-> "https://finance.yahoo.com/quote/", doc |-> ticker[1], rest |-> ""]

\* info.get("quoteType", "").upper() raises when the value is None.
quote_type_raises(info) == "quoteType" \in DOMAIN info /\ info.quoteType = None

quote_type_of(info) ==
    IF "quoteType" \in DOMAIN info THEN Upper(info.quoteType[1]) ELSE <<>>

\* YFinanceFetcher.can_handle
YFinance_can_handle(isin, ticker) ==
    IF Truthy(ticker) THEN TRUE
    ELSE Truthy(isin) /\ StartsWith(Upper(isin[1]), <<"U", "S">>)

\* The try block of YFinanceFetcher.fetch.
YFinance_try(etf_only, isin, ticker, w, net_up) ==
    LET got == yf_info(ticker, w, net_up)
    IN  IF IsRaised(got) THEN got
        ELSE
         LET info == got[1]
         IN  IF quote_type_raises(info) THEN Raised("AttributeError")
             ELSE IF etf_only /\ quote_type_of(info) # <<"E", "T", "F">> THEN None
             ELSE LET expense_ratio == Get(info, "netExpenseRatio")
                      metadata ==
                        ETFMetadata(Or(isin, ticker),
                            [ticker |-> ticker,
                             name |-> Or(Get(info, "longName"), Get(info, "shortName")),
                             ter |-> IF expense_ratio # None
                                     THEN Some(Round4(expense_ratio[1])) ELSE None,
                             fund_family |-> Get(info, "fundFamily"),
                             fund_currency |-> Get(info, "currency"),
                             distribution |->
                                 IF TruthyNum(Get(info, "dividendYield"))
                                 THEN Some("Distributing") ELSE None,
                             source_url |-> Some(yahoo_url(ticker))])
                  IN  IF Truthy(metadata.name) THEN Some(metadata) ELSE None

\* Fault: without a ticker the ISIN is looked up instead.
YFinance_fetch_by_isin(etf_only, isin, ticker, w, net_up) ==
    IF ~Truthy(ticker) /\ ~Truthy(isin) THEN None
    ELSE CatchAll(YFinance_try(etf_only, isin, Or(ticker, isin), w, net_up))

\* YFinanceFetcher.fetch; every exception inside is caught and gives None.
YFinance_fetch(etf_only, isin, ticker, w, net_up) ==
    IF ~Truthy(ticker) THEN None
    ELSE CatchAll(YFinance_try(etf_only, isin, ticker, w, net_up))

\* n / d rounded to the nearest integer, ties to even
RoundDiv(n, d) ==
    LET q == n \div d
        r == n % d
    IN  IF 2 * r > d \/ (2 * r = d /\ q % 2 = 1) THEN q + 1 ELSE q

\* f"{n:,.0f}" of a whole number: its groups of three digits, which the
\* string separates by commas.
RECURSIVE Thousands(_)
Thousands(n) ==
    IF n < 1000 THEN <<n>> ELSE Append(Thousands(n \div 1000), n % 1000)

\* Fault: the thresholds are compared with > instead of >=.
format_market_cap_exclusive(market_cap) ==
    IF ~TruthyNum(market_cap) THEN None
    ELSE LET cap == market_cap[1]
         IN  IF cap > 100000000 THEN Some([shown |-> RoundDiv(cap, 1000000), suffix |-> "T"])
             ELSE IF cap > 100000 THEN Some([shown |-> RoundDiv(cap, 1000), suffix |-> "B"])
             ELSE IF cap > 100 THEN Some([shown |-> cap, suffix |-> "M"])
             ELSE Some([shown |-> Thousands(cap * 10000), suffix |-> ""])

\* The market cap as formatted: with a suffix, the number shown times 100;
\* without one, the digit groups of the dollars.  market_cap is in 10^4
\* dollars.
format_market_cap(market_cap) ==
    IF ~TruthyNum(market_cap) THEN None
    ELSE LET cap == market_cap[1]
         IN  IF cap >= 100000000 THEN Some([shown |-> RoundDiv(cap, 1000000), suffix |-> "T"])
             ELSE IF cap >= 100000 THEN Some([shown |-> RoundDiv(cap, 1000), suffix |-> "B"])
             ELSE IF cap >= 100 THEN Some([shown |-> cap, suffix |-> "M"])
             ELSE Some([shown |-> Thousands(cap * 10000), suffix |-> ""])

\* Fault: a ticker that comes with an ISIN is declined.
StockInfo_can_handle_ticker_alone(isin, ticker) == Truthy(ticker) /\ ~Truthy(isin)

\* StockInfoFetcher.can_handle
StockInfo_can_handle(isin, ticker) == Truthy(ticker)

\* The try block of StockInfoFetcher.fetch.
StockInfo_try(isin, ticker, w, net_up) ==
    LET got == yf_info(ticker, w, net_up)
    IN  IF IsRaised(got) THEN got
        ELSE
         LET info == got[1]
         IN  IF quote_type_raises(info) THEN Raised("AttributeError")
             ELSE IF quote_type_of(info) = <<"E", "T", "F">> THEN None
             ELSE LET name == Or(Get(info, "longName"), Get(info, "shortName"))
                      pe   == Get(info, "trailingPE")
                      div_yield == Get(info, "trailingAnnualDividendYield")
                  IN  IF ~Truthy(name) THEN None
                      ELSE Some(
                        [ETFMetadata(Or(isin, ticker),
                            [ticker |-> ticker, name |-> name,
                             fund_currency |-> Get(info, "currency"),
                             source_url |-> Some(yahoo_url(ticker))])
                         EXCEPT !.stock_info = Some(
                            [quote_type |-> Some(quote_type_of(info)),
                             sector |-> Get(info, "sector"),
                             industry |-> Get(info, "industry"),
                             country |-> Get(info, "country"),
                             market_cap |-> format_market_cap(Get(info, "marketCap")),
                             pe_ratio |-> IF TruthyNum(pe) THEN Some(Fixed2(pe[1])) ELSE None,
                             dividend_yield |->
                                 IF TruthyNum(div_yield)
                                 THEN Some(Fixed2(div_yield[1])) ELSE None])])

\* StockInfoFetcher.fetch; every exception inside is caught and gives None.
StockInfo_fetch(isin, ticker, w, net_up) ==
    IF ~Truthy(ticker) THEN None
    ELSE CatchAll(StockInfo_try(isin, ticker, w, net_up))

\* ---------------------------------------------------------------- registry

VanguardFetcher == [cls |-> "VanguardFetcher", etf_only |-> FALSE]

YFinanceFetcher(etf_only) == [cls |-> "YFinanceFetcher", etf_only |-> etf_only]

StockInfoFetcher == [cls |-> "StockInfoFetcher", etf_only |-> FALSE]

DefaultFetchers ==
    <<VanguardFetcher, YFinanceFetcher(TRUE), StockInfoFetcher, YFinanceFetcher(FALSE)>>

\* A fetcher written by a caller (a BaseFetcher subclass): the outcome of its
\* can_handle and the outcome of its fetch, whatever the identifiers.
StubFetcher(handles, gives) ==
    [cls |-> "StubFetcher", etf_only |-> FALSE, handles |-> handles, gives |-> gives]

\* fetcher.can_handle(isin, ticker) raises
can_handle_raises(fetcher, isin, ticker) ==
    fetcher.cls = "StubFetcher" /\ IsRaised(fetcher.handles)

\* fetcher.can_handle(isin, ticker)
can_handle(fetcher, isin, ticker) ==
    CASE fetcher.cls = "VanguardFetcher"  -> Vanguard_can_handle(isin, ticker)
      [] fetcher.cls = "YFinanceFetcher"  -> YFinance_can_handle(isin, ticker)
      [] fetcher.cls = "StockInfoFetcher" -> StockInfo_can_handle(isin, ticker)
      [] fetcher.cls = "StubFetcher"      -> fetcher.handles = Some(TRUE)

\* fetcher.fetch(isin, ticker)
fetch(fetcher, isin, ticker, w, net_up) ==
    CASE fetcher.cls = "VanguardFetcher"  -> Vanguard_fetch(isin, ticker, w, net_up)
      [] fetcher.cls = "YFinanceFetcher"  ->
            YFinance_fetch(fetcher.etf_only, isin, ticker, w, net_up)
      [] fetcher.cls = "StockInfoFetcher" -> StockInfo_fetch(isin, ticker, w, net_up)
      [] fetcher.cls = "StubFetcher"      -> fetcher.gives

\* Fault: the priority is ignored, the fetcher is always appended.
register_fetcher_append_only(fetchers, fetcher, priority) == Append(fetchers, fetcher)

\* Fault: the fetcher is assigned to the position instead of inserted there.
register_fetcher_overwrite(fetchers, fetcher, priority) ==
    IF priority < 0 \/ priority >= Len(fetchers) THEN Append(fetchers, fetcher)
    ELSE [fetchers EXCEPT ![priority + 1] = fetcher]

\* register_fetcher(fetcher, priority): list.append, or list.insert(priority)
register_fetcher(fetchers, fetcher, priority) ==
    IF priority < 0 THEN Append(fetchers, fetcher)
    ELSE LET at == IF priority > Len(fetchers) THEN Len(fetchers) ELSE priority
         IN  SubSeq(fetchers, 1, at) \o <<fetcher>>
                 \o SubSeq(fetchers, at + 1, Len(fetchers))

\* ------------------------------------------------- metadata cache gateway

\* The cache store (db_manager): get_etf_metadata(key) and
\* save_etf_metadata(key, ticker, data) of a key-value store.
db_get(db, key) == IF key \in DOMAIN db THEN Some(db[key]) ELSE None

db_save(db, key, ticker, data) ==
    [k \in DOMAIN db \cup {key} |-> IF k = key THEN data ELSE db[k]]

\* The outcome of a store call while the store works (db_up) or not.
db_call(db_up, value) == IF db_up THEN value ELSE Raised("OperationalError")

\* Fault: only None counts as no identifier; an empty string passes.
nothing_given_none_only(isin0, ticker0) == isin0 = None /\ ticker0 = None

\* if not isin and not ticker
nothing_given(isin0, ticker0) == ~Truthy(isin0) /\ ~Truthy(ticker0)

\* isin.upper().strip(), applied to a truthy identifier only
normalize(v) == IF Truthy(v) THEN Some(Strip(Upper(v[1]))) ELSE v

\* Fault: the ticker is preferred.
cache_key_ticker_first(isin, ticker) == Or(ticker, isin)

\* cache_key = isin or ticker
cache_key(isin, ticker) == Or(isin, ticker)

\* Fault: the store is consulted although none was supplied.
consults_cache_without_db(has_db, skip_cache) == ~skip_cache

\* Fault: skip_cache is ignored.
consults_cache_ignores_skip(has_db, skip_cache) == has_db

\* The cache is consulted when there is a store and skip_cache is not set.
consults_cache(has_db, skip_cache) == has_db /\ ~skip_cache

\* Fault: a cached dictionary counts only when it carries an expense ratio.
is_hit_needs_ter(cached) == cached # None /\ Get(cached[1], "ter") # None

\* A cached dictionary counts when it is truthy (not None, not empty).
is_hit(cached) == cached # None /\ DOMAIN cached[1] # {}

\* Fault: the loop does not stop at the first record; the last one wins.
RECURSIVE try_fetchers_exhaustive(_, _, _, _, _, _)
try_fetchers_exhaustive(fetchers, i, isin, ticker, w, net_up) ==
    IF i > Len(fetchers) THEN [result |-> None, tried |-> <<>>, raised |-> FALSE]
    ELSE IF can_handle_raises(fetchers[i], isin, ticker)
         THEN [result |-> None, tried |-> <<>>, raised |-> TRUE]
    ELSE IF ~can_handle(fetchers[i], isin, ticker)
         THEN try_fetchers_exhaustive(fetchers, i + 1, isin, ticker, w, net_up)
    ELSE LET result == CatchAll(fetch(fetchers[i], isin, ticker, w, net_up))
             rest   == try_fetchers_exhaustive(fetchers, i + 1, isin, ticker, w, net_up)
         IN  [result |-> IF rest.result # None THEN rest.result ELSE result,
              tried |-> <<i>> \o rest.tried, raised |-> rest.raised]

\* Fault: a fetcher that raises ends the loop.
RECURSIVE try_fetchers_abort_on_raise(_, _, _, _, _, _)
try_fetchers_abort_on_raise(fetchers, i, isin, ticker, w, net_up) ==
    IF i > Len(fetchers) THEN [result |-> None, tried |-> <<>>, raised |-> FALSE]
    ELSE IF can_handle_raises(fetchers[i], isin, ticker)
         THEN [result |-> None, tried |-> <<>>, raised |-> TRUE]
    ELSE IF ~can_handle(fetchers[i], isin, ticker)
         THEN try_fetchers_abort_on_raise(fetchers, i + 1, isin, ticker, w, net_up)
    ELSE LET got == fetch(fetchers[i], isin, ticker, w, net_up)
         IN  IF IsRaised(got)
             THEN [result |-> None, tried |-> <<i>>, raised |-> FALSE]
             ELSE IF got # None
             THEN [result |-> got, tried |-> <<i>>, raised |-> FALSE]
             ELSE LET rest == try_fetchers_abort_on_raise(fetchers, i + 1, isin, ticker,
                                                          w, net_up)
                  IN  [result |-> rest.result, tried |-> <<i>> \o rest.tried,
                       raised |-> rest.raised]

\* The loop over FETCHERS from position i on: the record of the first
\* fetcher that can handle the identifiers and returns one, the positions of
\* the fetchers whose fetch was called, and whether a can_handle raised (it
\* is called outside the try block).
RECURSIVE try_fetchers(_, _, _, _, _, _)
try_fetchers(fetchers, i, isin, ticker, w, net_up) ==
    IF i > Len(fetchers) THEN [result |-> None, tried |-> <<>>, raised |-> FALSE]
    ELSE IF can_handle_raises(fetchers[i], isin, ticker)
         THEN [result |-> None, tried |-> <<>>, raised |-> TRUE]
    ELSE IF ~can_handle(fetchers[i], isin, ticker)
         THEN try_fetchers(fetchers, i + 1, isin, ticker, w, net_up)
    ELSE LET result == CatchAll(fetch(fetchers[i], isin, ticker, w, net_up))
         IN  IF result # None
             THEN [result |-> result, tried |-> <<i>>, raised |-> FALSE]
             ELSE LET rest == try_fetchers(fetchers, i + 1, isin, ticker, w, net_up)
                  IN  [result |-> rest.result, tried |-> <<i>> \o rest.tried,
                       raised |-> rest.raised]

\* Fault: a failed resolution is remembered under the key as well.
rows_to_save_failures_too(result, has_db, key, ticker) ==
    IF ~has_db THEN <<>>
    ELSE IF result # None
         THEN <<[key |-> key, ticker |-> ticker, data |-> to_dict(result[1])]>>
         ELSE <<[key |-> key, ticker |-> ticker, data |-> [isin |-> key]]>>

\* Fault: the result is never saved.
rows_to_save_nothing(result, has_db, key, ticker) == <<>>

\* The rows saved after the loop: the result's dictionary under the key, when
\* there is a result and a store.
rows_to_save(result, has_db, key, ticker) ==
    IF result # None /\ has_db
    THEN <<[key |-> key, ticker |-> ticker, data |-> to_dict(result[1])]>>
    ELSE <<>>

RECURSIVE db_save_all(_, _)
db_save_all(db, rows) ==
    IF rows = <<>> THEN db
    ELSE db_save_all(db_save(db, rows[1].key, rows[1].ticker, rows[1].data), Tail(rows))

\* get_etf_metadata(isin, ticker, db_manager, skip_cache) on the store db:
\* what it returns, whether it raises, the store reads and saves it issues,
\* the fetchers it calls, and the store afterwards.
get_etf_metadata(isin0, ticker0, has_db, skip_cache, db, fetchers, w, net_up, db_up) ==
    IF nothing_given(isin0, ticker0)
    THEN [result |-> None, raised |-> FALSE, key |-> None, reads |-> <<>>,
          hit |-> FALSE, tried |-> <<>>, saves |-> <<>>, db |-> db]
    ELSE LET isin   == normalize(isin0)
             ticker == normalize(ticker0)
             key    == cache_key(isin, ticker)
             reads  == IF consults_cache(has_db, skip_cache) THEN <<key>> ELSE <<>>
             cached == IF consults_cache(has_db, skip_cache)
                       THEN db_call(db_up, db_get(db, key)) ELSE None
         IN  IF IsRaised(cached)
             THEN [result |-> None, raised |-> TRUE,
                   key |-> key, reads |-> reads, hit |-> FALSE,
                   tried |-> <<>>, saves |-> <<>>, db |-> db]
             ELSE IF is_hit(cached)
             THEN [result |-> IF from_dict_raises(cached[1]) THEN None
                              ELSE Some(from_dict(cached[1])),
                   raised |-> from_dict_raises(cached[1]),
                   key |-> key, reads |-> reads, hit |-> TRUE,
                   tried |-> <<>>, saves |-> <<>>, db |-> db]
             ELSE LET got   == try_fetchers(fetchers, 1, isin, ticker, w, net_up)
                      rows  == IF got.raised THEN <<>>
                               ELSE rows_to_save(got.result, has_db, key, ticker)
                      saved == IF rows = <<>> THEN Some(db)
                               ELSE db_call(db_up, Some(db_save_all(db, rows)))
                  IN  [result |-> IF got.raised \/ IsRaised(saved) THEN None
                                  ELSE got.result,
                       raised |-> got.raised \/ IsRaised(saved),
                       key |-> key, reads |-> reads, hit |-> FALSE,
                       tried |-> got.tried, saves |-> rows,
                       db |-> IF IsRaised(saved) THEN db ELSE saved[1]]

\* Fault: only the first fetcher is asked.
any_can_handle_first_only(fetchers, i, isin) ==
    IF i > Len(fetchers) THEN Some(FALSE)
    ELSE IF can_handle_raises(fetchers[i], isin, None) THEN Raised("Exception")
    ELSE Some(can_handle(fetchers[i], isin, None))

\* any(f.can_handle(isin, None) for f in fetchers) from position i on
RECURSIVE any_can_handle(_, _, _)
any_can_handle(fetchers, i, isin) ==
    IF i > Len(fetchers) THEN Some(FALSE)
    ELSE IF can_handle_raises(fetchers[i], isin, None) THEN Raised("Exception")
    ELSE IF can_handle(fetchers[i], isin, None) THEN Some(TRUE)
    ELSE any_can_handle(fetchers, i + 1, isin)

\* is_supported_isin(isin): the outcome
is_supported_isin(isin0, fetchers) ==
    IF ~Truthy(isin0) THEN Some(FALSE)
    ELSE any_can_handle(fetchers, 1, Some(Strip(Upper(isin0[1]))))

\* The identifiers get_etf_metadata is called with.
IsinInputs ==
    {None, Some(<<>>), Some(<<" ">>), Some(<<"I", "E", "1">>),
     Some(<<" ", "i", "e", "1">>), Some(<<"U", "S", "1">>), Some(<<"D", "E", "1">>)}

TickerInputs == {None, Some(<<>>), Some(<<"V">>), Some(<<"v", " ">>)}

NoMetaCall ==
    [isin |-> None, ticker |-> None, has_db |-> FALSE, skip_cache |-> FALSE,
     net_up |-> TRUE, db_up |-> TRUE, pre |-> <<>>,
     out |-> [result |-> None, raised |-> FALSE, key |-> None, reads |-> <<>>,
              hit |-> FALSE, tried |-> <<>>, saves |-> <<>>, db |-> <<>>]]

\* No direct call is in progress.
NoFetch == [op |-> "none"]

\* One call of get_etf_metadata, with the store or without (db_manager=None).
\* Calls follow one another: a call starts once the previous one has returned.
GetEtfMetadata(isin, ticker, has_db, skip_cache, net_up, db_up) ==
    LET out == get_etf_metadata(isin, ticker, has_db, skip_cache, store,
                                FETCHERS, world, net_up, db_up)
    IN  /\ m = NoMetaCall
        /\ f = NoFetch
        /\ m' = [isin |-> isin, ticker |-> ticker, has_db |-> has_db,
                 skip_cache |-> skip_cache, net_up |-> net_up, db_up |-> db_up,
                 pre |-> store, out |-> out]
        /\ store' = m'.out.db
        /\ UNCHANGED <<world, FETCHERS, f, priceVars, fredVars>>

\* Records a caller's fetcher may return: one with neither name nor expense
\* ratio, and one with a name.
ShellRecord == ETFMetadata(Some(<<"X">>), <<>>)

NamedRecord == ETFMetadata(Some(<<"X">>), [name |-> Some(<<"S">>)])

\* The fetchers callers register.
StubFetchers ==
    {StubFetcher(Some(TRUE), Raised("Exception")),
     StubFetcher(Some(TRUE), Some(ShellRecord)),
     StubFetcher(Some(TRUE), Some(NamedRecord)),
     StubFetcher(Some(FALSE), Some(NamedRecord)),
     StubFetcher(Raised("Exception"), None)}

Priorities == {-1, 0}

\* register_fetcher(fetcher, priority)
RegisterFetcher(fetcher, priority) ==
    /\ m = NoMetaCall
    /\ f = NoFetch
    /\ Len(FETCHERS) < MaxFetchers
    /\ FETCHERS' = register_fetcher(FETCHERS, fetcher, priority)
    /\ f' = [op |-> "register_fetcher", fetcher |-> fetcher, priority |-> priority,
             pre |-> FETCHERS]
    /\ UNCHANGED <<world, store, m, priceVars, fredVars>>

\* A row of the store that this release did not write: it has no isin.
ForeignRow == [ticker |-> Some(<<"X">>), ter |-> Some(1000)]

\* Another writer of the store leaves a row under a key.
ForeignSave(key, data) ==
    /\ m = NoMetaCall
    /\ f = NoFetch
    /\ key \notin DOMAIN store
    /\ store' = db_save(store, key, None, data)
    /\ UNCHANGED <<world, FETCHERS, m, f, priceVars, fredVars>>

\* One call of is_supported_isin.
IsSupportedIsin(isin) ==
    /\ m = NoMetaCall
    /\ f = NoFetch
    /\ f' = [op |-> "is_supported_isin", isin |-> isin,
             out |-> is_supported_isin(isin, FETCHERS)]
    /\ UNCHANGED <<world, FETCHERS, store, m, priceVars, fredVars>>

\* One direct call of a fetcher's fetch.
Fetch(fetcher, isin, ticker, net_up) ==
    /\ m = NoMetaCall
    /\ f = NoFetch
    /\ f' = [op |-> "fetch", fetcher |-> fetcher, isin |-> isin, ticker |-> ticker,
             net_up |-> net_up,
             out |-> fetch(fetcher, isin, ticker, world, net_up)]
    /\ UNCHANGED <<world, FETCHERS, store, m, priceVars, fredVars>>

\* The record just fetched is serialized, saved under its isin in a store,
\* read back and deserialized.
RoundTrip ==
    /\ f.op = "fetch"
    /\ f.out # None
    /\ ~IsRaised(f.out)
    /\ LET record == f.out[1]
           db     == db_save(store, record.isin, record.ticker, to_dict(record))
           read   == db_get(db, record.isin)
       IN  f' = [op |-> "round_trip", record |-> record, saved |-> to_dict(record),
                 read |-> read,
                 back |-> IF read = None \/ from_dict_raises(read[1])
                          THEN None ELSE Some(from_dict(read[1]))]
    /\ UNCHANGED <<world, FETCHERS, store, m, priceVars, fredVars>>

\* The ISINs can_handle is called with directly, as the caller wrote them.
CanHandleIsins ==
    IsinInputs \cup {Some(<<"i", "e", "1">>), Some(<<"i", "E">>), Some(<<"I">>),
                     Some(<<"D", "I", "E">>)}

\* One direct call of a fetcher's can_handle.
CanHandle(fetcher, isin, ticker) ==
    /\ m = NoMetaCall
    /\ f = NoFetch
    /\ f' = [op |-> "can_handle", fetcher |-> fetcher, isin |-> isin, ticker |-> ticker,
             registry |-> FETCHERS, rows |-> store,
             out |-> can_handle(fetcher, isin, ticker)]
    /\ UNCHANGED <<world, FETCHERS, store, m, priceVars, fredVars>>

\* Dictionaries from_dict is applied to: rows with the recognized keys only,
\* rows with keys no field has, rows without isin.
DictInputs ==
    {[isin |-> Some(<<"I", "E", "1">>)],
     [isin |-> Some(<<"I", "E", "1">>), unknown_field |-> Some("should be ignored")],
     [isin |-> Some(<<"V">>), ticker |-> Some(<<"V">>), name |-> Some(<<"A">>),
      ter |-> None, sector |-> Some("Technology"), market_cap |-> None],
     [isin |-> Some(<<"I", "E", "1">>), ter |-> Some(1900), risk_level |-> Some(4)],
     [ticker |-> Some(<<"V">>), unknown_field |-> Some("should be ignored")],
     [ticker |-> Some(<<"V">>), ter |-> Some(1900)]}

\* One direct call of ETFMetadata.from_dict.
FromDict(data) ==
    /\ m = NoMetaCall
    /\ f = NoFetch
    /\ f' = [op |-> "from_dict", data |-> data, out |-> from_dict_call(data)]
    /\ UNCHANGED <<world, FETCHERS, store, m, priceVars, fredVars>>

\* The caller has taken the outcome of the direct call.
DirectReturn ==
    /\ f # NoFetch
    /\ f' = NoFetch
    /\ UNCHANGED <<world, FETCHERS, store, m, priceVars, fredVars>>

\* ------------------------------------------------------------ FRED series

CACHE_DURATION_SECONDS == 300

\* What requests.get gives for a series request: a connection error or a
\* timeout (requests.RequestException), or a response with a status and a
\* JSON object as body.
FredAnswers ==
    {Raised("RequestException"),
     Some([status |-> 500, body |-> <<>>]),
     Some([status |-> 200, body |-> [observations |-> <<"o1">>]]),
     Some([status |-> 200, body |-> [observations |-> <<"o2", "o1">>]]),
     Some([status |-> 200, body |-> [realtime_start |-> "2026-01-01"]])}

\* response.raise_for_status(): HTTPError, a RequestException, for 4xx and 5xx
raise_for_status(response) ==
    IF response.status >= 400 THEN Raised("RequestException") ELSE None

\* Fault: an entry of exactly the cache duration still counts as fresh.
series_is_fresh_inclusive(cache, series_id, t) ==
    /\ series_id \in DOMAIN cache
    /\ t - cache[series_id].timestamp <= CACHE_DURATION_SECONDS

\* The cache has an entry for the series and it is younger than the cache
\* duration.
series_is_fresh(cache, series_id, t) ==
    /\ series_id \in DOMAIN cache
    /\ t - cache[series_id].timestamp < CACHE_DURATION_SECONDS

\* get_series_observations(series_id, api_key) at time t with the cache as
\* given, when requests.get gives the answer: the value returned, the cache
\* afterwards, the number of requests made and the keys looked up.
get_series_observations(series_id0, api_key, cache, t, answer) ==
    IF ~TruthyStr(api_key)
    THEN [result |-> None, cache |-> cache, requests |-> 0, reads |-> <<>>]
    ELSE LET series_id == Upper(series_id0)
         IN  IF series_is_fresh(cache, series_id, t)
             THEN [result |-> Some(cache[series_id].data), cache |-> cache,
                   requests |-> 0, reads |-> <<series_id>>]
             ELSE LET failed == IF IsRaised(answer) THEN answer
                                ELSE raise_for_status(answer[1])
                      observations ==
                          IF "observations" \in DOMAIN answer[1].body
                          THEN answer[1].body.observations ELSE <<>>
                  IN  IF IsRaised(failed)
                      THEN [result |-> CatchOnly("RequestException", failed),
                            cache |-> cache, requests |-> 1, reads |-> <<series_id>>]
                      ELSE [result |-> Some(observations),
                            cache |-> Update(cache,
                                [k \in {series_id} |->
                                    [timestamp |-> t, data |-> observations]]),
                            requests |-> 1, reads |-> <<series_id>>]

NoFredCall == [op |-> "none"]

\* The series ids and API keys callers pass.
SeriesInputs == {<<"G", "D", "P">>, <<"g", "d", "p">>, <<"C", "p", "i">>}

ApiKeys == {None, Some(""), Some("key")}

\* How long a request takes, in seconds: no time to speak of, or long (the
\* timeout of 10 seconds bounds each read, not the whole request).
RequestSeconds == {0, 100}

\* One call of get_series_observations; a request takes some time.
GetSeriesObservations(series_id, api_key, answer, took) ==
    LET out == get_series_observations(series_id, api_key, series_cache, clock, answer)
    IN  /\ g = NoFredCall
        /\ clock + took <= MaxFredTime
        /\ g' = [op |-> "get_series_observations", series_id |-> series_id,
                 api_key |-> api_key, answer |-> answer, start |-> clock,
                 pre |-> series_cache, out |-> out]
        /\ series_cache' = out.cache
        /\ clock' = IF out.requests > 0 THEN clock + took ELSE clock
        /\ UNCHANGED <<metaVars, priceVars>>

\* The caller has taken the result.
FredReturn ==
    /\ g # NoFredCall
    /\ g' = NoFredCall
    /\ UNCHANGED <<clock, series_cache, metaVars, priceVars>>

\* Time passes between calls.
Elapse(seconds) ==
    /\ g = NoFredCall
    /\ clock + seconds <= MaxFredTime
    /\ clock' = clock + seconds
    /\ UNCHANGED <<series_cache, g, metaVars, priceVars>>

\* The texts _parse_kid_text is applied to: every combination of what the
\* name pattern, the three TER patterns and the two risk patterns capture
\* and of the four words.
TerCaptures ==
    {None, Some(<<"0", ".", "1", "9">>), Some(<<"0", ",", "1", "9">>),
     Some(<<"1", ".", "5", "0">>)}

RiskCaptures == {None, Some("4"), Some("8"), Some("0")}

ParserTexts ==
    [blank : {FALSE},
     name : {None, Some(<<" ", "F", "T", "S", "E">>)},
     ter : [1..3 -> TerCaptures],
     risk : [1..2 -> RiskCaptures],
     accumulating : BOOLEAN, distributing : BOOLEAN,
     physical : BOOLEAN, synthetic : BOOLEAN]

\* One direct call of VanguardFetcher._parse_kid_text.
ParseKidText(text, isin, ticker) ==
    /\ m = NoMetaCall
    /\ f = NoFetch
    /\ f' = [op |-> "parse_kid_text", text |-> text, isin |-> isin, ticker |-> ticker,
             out |-> parse_kid_text(text, isin, ticker, build_url(isin[1]))]
    /\ UNCHANGED <<world, FETCHERS, store, m, priceVars, fredVars>>

\* The state when the program starts, whatever the upstream world: nothing
\* is cached, the store is empty, the registry is the default one.
Start ==
    /\ now = 0
    /\ market_open = TRUE
    /\ price_cache = <<>>
    /\ call = NoCall
    /\ threads = [thread \in Threads |-> Idle]
    /\ written = <<>>
    /\ FETCHERS = DefaultFetchers
    /\ store = <<>>
    /\ m = NoMetaCall
    /\ f = NoFetch
    /\ clock = 0
    /\ series_cache = <<>>
    /\ g = NoFredCall

\* The upstream world is any one.
Init == Start /\ world \in Worlds

\* The price cache alone, in one upstream world: get_prices reads and writes
\* no variable of the metadata gateway, and the gateway none of the cache's.
PriceInit == Init /\ world = [doc |-> DocFull, info |-> InfoETF]

PriceNext ==
    \/ \E symbols \in Requests, force \in BOOLEAN : GetPrices(symbols, force)
    \/ PriceReturn
    \/ Tick
    \/ MarketOpens
    \/ MarketCloses

PriceSpec == PriceInit /\ [][PriceNext]_vars

\* The price cache shared by two threads.
ThreadRequests == {<<"A">>, <<"B", "A">>}

ThreadedNext ==
    \/ \E thread \in Threads, symbols \in ThreadRequests, force \in BOOLEAN :
            Begin(thread, symbols, force)
    \/ \E thread \in Threads : Upstream(thread)
    \/ \E thread \in Threads : WriteStep(thread)
    \/ \E thread \in Threads : Finish(thread)
    \/ (now < MaxThreadTime /\ Tick)
    \/ MarketOpens
    \/ MarketCloses

ThreadedSpec == PriceInit /\ [][ThreadedNext]_vars

MetaInit == Init

\* The caller has taken the result: the record of the call is dropped.
MetaReturn ==
    /\ m # NoMetaCall
    /\ m' = NoMetaCall
    /\ UNCHANGED <<world, FETCHERS, store, f, priceVars, fredVars>>

MetaNext ==
    \/ \E isin \in IsinInputs, ticker \in TickerInputs, has_db \in BOOLEAN,
          skip_cache \in BOOLEAN, net_up \in BOOLEAN :
            GetEtfMetadata(isin, ticker, has_db, skip_cache, net_up, TRUE)
    \/ MetaReturn

MetaSpec == MetaInit /\ [][MetaNext]_vars

\* The gateway with callers that register fetchers of their own, a store
\* that may fail or hold foreign rows, and is_supported_isin.
GatewayWorlds ==
    {[doc |-> DocFull, info |-> InfoETF],
     [doc |-> DocFull, info |-> InfoEquity],
     [doc |-> Doc404, info |-> InfoNoType]}

GatewayIsins == {None, Some(<<"I", "E", "1">>), Some(<<"d", "e", "1">>)}

GatewayTickers == {None, Some(<<"V">>)}

GatewayInit == Init /\ world \in GatewayWorlds

GatewayNext ==
    \/ \E isin \in GatewayIsins, ticker \in GatewayTickers, has_db \in BOOLEAN,
          skip_cache \in BOOLEAN, net_up \in BOOLEAN, db_up \in BOOLEAN :
            GetEtfMetadata(isin, ticker, has_db, skip_cache, net_up, db_up)
    \/ MetaReturn
    \/ \E fetcher \in StubFetchers, priority \in Priorities :
            RegisterFetcher(fetcher, priority)
    \/ ForeignSave(Some(<<"I", "E", "1">>), ForeignRow)
    \/ \E isin \in GatewayIsins : IsSupportedIsin(isin)
    \/ DirectReturn

GatewaySpec == GatewayInit /\ [][GatewayNext]_vars

\* The registry: callers register fetchers at the end, at the front, in the
\* middle and beyond the end, and resolve identifiers with and without a
\* store that works.
RegistryPriorities == {-1, 0, 2, 9}

RegistryIsins == GatewayIsins \cup {Some(<<>>)}

RegistryTickers == GatewayTickers \cup {Some(<<>>)}

\* The ISINs is_supported_isin is asked about.
SupportIsins == IsinInputs \cup {Some(<<"u", "s", "1">>)}

\* The fetchers registered here: one that answers, one that declines, one
\* whose can_handle raises.
RegistryStubs ==
    {StubFetcher(Some(TRUE), Some(NamedRecord)),
     StubFetcher(Some(FALSE), Some(NamedRecord)),
     StubFetcher(Raised("Exception"), None)}

RegistryWorlds ==
    {[doc |-> DocFull, info |-> InfoETF], [doc |-> Doc404, info |-> InfoNoType]}

RegistryInit == Init /\ world \in RegistryWorlds

RegistryNext ==
    \/ \E fetcher \in RegistryStubs, priority \in RegistryPriorities :
            RegisterFetcher(fetcher, priority)
    \/ DirectReturn
    \/ \E isin \in RegistryIsins, ticker \in RegistryTickers, has_db \in BOOLEAN,
          skip_cache \in BOOLEAN, net_up \in BOOLEAN :
            GetEtfMetadata(isin, ticker, has_db, skip_cache, net_up, TRUE)
    \/ MetaReturn
    \/ \E isin \in SupportIsins : IsSupportedIsin(isin)

RegistrySpec == RegistryInit /\ [][RegistryNext]_vars

\* The built-in fetchers and the record methods called directly, in every
\* upstream world.
FetcherInit == Init

FetcherNext ==
    \/ \E i \in DOMAIN DefaultFetchers, isin \in IsinInputs, ticker \in TickerInputs,
          net_up \in BOOLEAN :
            Fetch(DefaultFetchers[i], isin, ticker, net_up)
    \/ RoundTrip
    \/ \E data \in DictInputs : FromDict(data)
    \/ \E i \in DOMAIN DefaultFetchers, isin \in CanHandleIsins, ticker \in TickerInputs :
            CanHandle(DefaultFetchers[i], isin, ticker)
    \/ DirectReturn

FetcherSpec == FetcherInit /\ [][FetcherNext]_vars

\* The document parser called directly on every text.
ParserInit == Start /\ world = [doc |-> DocFull, info |-> InfoETF]

ParserNext ==
    \/ (f = NoFetch /\ \E text \in ParserTexts :
                            ParseKidText(text, Some(<<"I", "E", "1">>), None))
    \/ DirectReturn

ParserSpec == ParserInit /\ [][ParserNext]_vars

\* The document fetcher against a server that answers the fund's URL with
\* any status and any first four bytes (none at all for an empty body); the
\* body, read as a PDF, has the full text.
DocumentWorlds ==
    {[doc |-> [status |-> status, head |-> head, pages |-> Some(TextFull)],
      info |-> InfoETF] : status \in {200, 404, 500}, head \in {"%PDF", "<htm", ""}}

DocumentInit == Start /\ world \in DocumentWorlds

DocumentNext ==
    \/ \E isin \in CanHandleIsins, ticker \in TickerInputs, net_up \in BOOLEAN :
            Fetch(VanguardFetcher, isin, ticker, net_up)
    \/ DirectReturn

DocumentSpec == DocumentInit /\ [][DocumentNext]_vars

\* The market caps yfinance reports, in 10^4 dollars: none, zero, and values
\* below, at and above each threshold of the formatting.
MarketCaps ==
    {None, Some(0), Some(1), Some(99), Some(100), Some(12345), Some(99999),
     Some(100000), Some(123456), Some(99999999), Some(100000000), Some(300000000)}

\* A company as yfinance reports it, with each market cap and without one.
EquityWorlds ==
    {[doc |-> Doc404, info |-> [InfoEquity EXCEPT !.marketCap = cap]] : cap \in MarketCaps}
        \cup {[doc |-> Doc404, info |-> InfoEtc]}

EquityInit == Start /\ world \in EquityWorlds

EquityNext ==
    \/ \E isin \in {None, Some(<<"U", "S", "1">>)}, ticker \in TickerInputs,
          net_up \in BOOLEAN :
            Fetch(StockInfoFetcher, isin, ticker, net_up)
    \/ DirectReturn

EquitySpec == EquityInit /\ [][EquityNext]_vars

\* The FRED series cache: calls with and without a key, for a series in
\* either letter case and for another one, whatever the API answers, with
\* 100 or 199 seconds passing between calls.
FredInit == Start /\ world = [doc |-> DocFull, info |-> InfoETF]

FredNext ==
    \/ (g = NoFredCall /\ \E series_id \in SeriesInputs, api_key \in ApiKeys,
                              answer \in FredAnswers, took \in RequestSeconds :
            GetSeriesObservations(series_id, api_key, answer, took))
    \/ FredReturn
    \/ \E seconds \in {100, 199} : Elapse(seconds)

FredSpec == FredInit /\ [][FredNext]_vars

Next ==
    \/ PriceNext \/ ThreadedNext \/ MetaNext \/ GatewayNext \/ RegistryNext
    \/ FetcherNext \/ ParserNext \/ DocumentNext \/ EquityNext \/ FredNext

Spec == Init /\ [][Next]_vars

\* ------------------------------------------- properties of the price cache

\* The time at which a quote was taken, read off the quote itself.
QuotedAt(rec) == CHOOSE t \in 0..MaxTime : Quote(rec.symbol, t) = rec

Pos(seq, x) == CHOOSE i \in DOMAIN seq : seq[i] = x

\* The symbol was answered from the cache: no upstream request named it.
ServedFromCache(s) ==
    /\ s \in Range(call.req)
    /\ s \notin Range(call.batch)
    /\ s \notin Range(call.singles)

\* What the caller must get for a symbol that was requested upstream.
Expected(s) ==
    IF s \in call.bad THEN UnavailableRecord(s) ELSE Quote(s, call.at)

\* C1: every get_prices call returns exactly one record per requested symbol,
\* whatever mix of cache hits, batch failures and per-symbol failures occurs;
\* a symbol whose fetch failed is present, described as "Data Unavailable".
C1_OneRecordPerSymbol ==
    /\ Len(call.result) = Len(call.req)
    /\ \A i \in DOMAIN call.result : call.result[i].symbol \in Range(call.req)
    /\ \A s \in Range(call.req) :
          Cardinality({i \in DOMAIN call.result : call.result[i].symbol = s}) = 1
    /\ \A i \in DOMAIN call.result :
          (call.result[i].symbol \in Range(call.batch) \cap call.bad)
              => call.result[i].description = "Data Unavailable"

\* A call that mixes a cache hit with a symbol that failed in the batch and
\* again on its own.
C1_Witness ==
    /\ Len(call.req) = 2
    /\ call.raised
    /\ \E s, u \in Range(call.req) :
          /\ ServedFromCache(s)
          /\ u \in Range(call.singles) \cap call.bad

C3_ForceRefreshBypassesCache ==
    call.force =>
        \A i \in DOMAIN call.req :
            /\ call.req[i] \in Range(call.batch)
            /\ call.result[i] = Expected(call.req[i])

\* A forced call over an unexpired entry, market closed, that returns a
\* record other than the cached one.
C3_Witness ==
    /\ call.force
    /\ ~call.open
    /\ \E i \in DOMAIN call.req :
          /\ call.req[i] \in DOMAIN call.pre
          /\ call.at < call.pre[call.req[i]].expiry
          /\ call.result[i] = Quote(call.req[i], call.at)
          /\ call.result[i] # call.pre[call.req[i]].data

\* C4: when the batch request fails, each symbol of the batch is fetched
\* individually, and a symbol whose individual fetch succeeds gets its real
\* record even though another symbol of the same batch fails.
C4_BatchFailureFallsBack ==
    call.raised =>
        /\ call.singles = call.batch
        /\ \A i \in DOMAIN call.req :
              call.req[i] \in Range(call.batch) =>
                  call.result[i] = Expected(call.req[i])

\* [A, B], the batch raises, B fails on its own too: A's data and B marked
\* unavailable.
C4_Witness ==
    /\ call.raised
    /\ call.req = <<"A", "B">>
    /\ call.batch = <<"A", "B">>
    /\ call.bad = {"B"}
    /\ call.result = <<Quote("A", call.at), UnavailableRecord("B")>>

\* C5: the records are returned in the order of the requested symbols,
\* whichever were cache hits, batch fetches or fallback fetches.
C5_ResultInRequestOrder ==
    \A i, j \in DOMAIN call.result :
        i < j =>
            /\ call.result[i].symbol \in Range(call.req)
            /\ call.result[j].symbol \in Range(call.req)
            /\ Pos(call.req, call.result[i].symbol)
                  < Pos(call.req, call.result[j].symbol)

\* [B, A] with B fetched by the fallback and A a cache hit.
C5_Witness ==
    /\ call.req = <<"B", "A">>
    /\ call.singles = <<"B">>
    /\ ServedFromCache("A")
    /\ call.result[1].symbol = "B"

\* C6: after a successful fetch of a symbol the cache holds the fetched
\* record for it, with an expiry computed from the fetch time and later than
\* it, replacing any previous entry.
C6_FetchOverwritesEntry ==
    \A s \in Range(call.batch) \ call.bad :
        /\ s \in DOMAIN price_cache
        /\ price_cache[s].data = Quote(s, call.at)
        /\ price_cache[s].expiry = call.at + PRICE_TTL
        /\ call.at < price_cache[s].expiry

\* A successful fetch that replaced an older, different entry.
C6_Witness ==
    \E s \in Range(call.batch) \ call.bad :
        /\ s \in DOMAIN call.pre
        /\ s \in DOMAIN price_cache
        /\ price_cache[s] # call.pre[s]
        /\ price_cache[s].data = Quote(s, call.at)

\* ------------------------------------ properties of the metadata gateway

\* The last call was given an identifier.
GivenSomething == Truthy(m.isin) \/ Truthy(m.ticker)

\* The identifiers of the last call in upper case without surrounding
\* whitespace, and the key they are cached under: the identifier code when it
\* is not empty, the ticker otherwise.
NormIsin == IF Truthy(m.isin) THEN Some(Strip(Upper(m.isin[1]))) ELSE m.isin

NormTicker == IF Truthy(m.ticker) THEN Some(Strip(Upper(m.ticker[1]))) ELSE m.ticker

NormKey == IF Truthy(NormIsin) THEN NormIsin ELSE NormTicker

\* The registry positions of the fetchers that accept the identifiers.
Applicable == {i \in DOMAIN FETCHERS : can_handle(FETCHERS[i], NormIsin, NormTicker)}

\* The store held a record for the last call's key and the call could read it.
Cached == m.has_db /\ ~m.skip_cache /\ GivenSomething /\ NormKey \in DOMAIN m.pre

\* What a call for the same identifiers, made now, gives: without bypassing
\* the cache (Again), and exactly as the last call was made (Repeat).
Again(net_up) ==
    get_etf_metadata(m.isin, m.ticker, m.has_db, FALSE, store, FETCHERS, world, net_up,
                     TRUE)

Repeat(net_up) ==
    get_etf_metadata(m.isin, m.ticker, m.has_db, m.skip_cache, store, FETCHERS, world,
                     net_up, m.db_up)

\* C7: a call with a store and without skip_cache whose key is in the store
\* returns the record stored under the key, calls no fetcher, reads the store
\* exactly once (under that key) and writes nothing.
C7_CacheHitReturnsCached ==
    Cached =>
        /\ m.out.result # None
        /\ \A k \in Fields : m.out.result[1][k] = Get(m.pre[NormKey], k)
        /\ m.out.tried = <<>>
        /\ m.out.reads = <<NormKey>>
        /\ m.out.saves = <<>>
        /\ store = m.pre

\* A hit for an identifier given in lower case with a leading blank, while
\* the network is up and a fetcher would have accepted the identifier.
C7_Witness ==
    /\ Cached
    /\ m.isin = Some(<<" ", "i", "e", "1">>)
    /\ m.net_up
    /\ Applicable # {}
    /\ m.out.hit
    /\ m.out.result # None

\* C8: a call that does not hit the cache, has a store and gets a record from
\* the chain saves the record exactly once under the normalized key, leaves
\* every other key alone, returns the record, and the same call repeated
\* without bypass gives that saved record back.
C8_MissSavesAndServes ==
    (m.has_db /\ GivenSomething /\ ~m.out.hit /\ m.out.result # None) =>
        /\ m.out.saves = <<[key |-> NormKey, ticker |-> NormTicker,
                            data |-> to_dict(m.out.result[1])]>>
        /\ store = [k \in DOMAIN m.pre \cup {NormKey} |->
                       IF k = NormKey THEN to_dict(m.out.result[1]) ELSE m.pre[k]]
        /\ \A net_up \in BOOLEAN :
               /\ Again(net_up).result # None
               /\ to_dict(Again(net_up).result[1]) = to_dict(m.out.result[1])

\* A fund record fetched with skip_cache replaced a different record under
\* its key, and the repeated call gives it back.
C8_Witness ==
    /\ m.has_db /\ m.skip_cache /\ ~m.out.hit
    /\ m.out.result # None
    /\ NormKey \in DOMAIN m.pre
    /\ m.pre[NormKey] # to_dict(m.out.result[1])
    /\ store[NormKey] = to_dict(m.out.result[1])
    /\ Again(FALSE).result = m.out.result

\* The part of C8 that holds for every record: the save, once, under the key.
C8_SavedOnceUnderKey ==
    (m.has_db /\ GivenSomething /\ ~m.out.hit /\ m.out.result # None) =>
        /\ m.out.saves = <<[key |-> NormKey, ticker |-> NormTicker,
                            data |-> to_dict(m.out.result[1])]>>
        /\ store = [k \in DOMAIN m.pre \cup {NormKey} |->
                       IF k = NormKey THEN to_dict(m.out.result[1]) ELSE m.pre[k]]
        /\ \A net_up \in BOOLEAN :
               /\ Again(net_up).hit
               /\ Again(net_up).result # None
               /\ \A k \in Fields :
                      Again(net_up).result[1][k] = m.out.result[1][k]

\* C9: when the cache does not answer and every fetcher that accepts the
\* identifiers returns nothing, the call returns nothing, every accepting
\* fetcher was called, the store is as it was, and the same call repeated
\* calls the fetchers again.
C9_FailureIsNotCached ==
    (/\ GivenSomething
     /\ ~Cached
     /\ \A i \in Applicable :
            fetch(FETCHERS[i], NormIsin, NormTicker, world, m.net_up) = None) =>
        /\ m.out.result = None
        /\ {m.out.tried[j] : j \in DOMAIN m.out.tried} = Applicable
        /\ m.out.saves = <<>>
        /\ store = m.pre
        /\ \A net_up \in BOOLEAN :
               /\ ~Repeat(net_up).hit
               /\ Applicable # {} => Repeat(net_up).tried # <<>>
               /\ Repeat(net_up).result =
                      try_fetchers(FETCHERS, 1, NormIsin, NormTicker, world, net_up).result

\* Several fetchers failed with the network up and a store present, and the
\* repeated call would still call them.
C9_Witness ==
    /\ m.has_db /\ ~m.skip_cache /\ m.net_up
    /\ GivenSomething
    /\ m.out.result = None
    /\ Len(m.out.tried) >= 2
    /\ store = m.pre
    /\ Repeat(TRUE).tried = m.out.tried

\* C10: with skip_cache the store is not read, the chain runs, and the call
\* returns what the chain gives, whatever the store holds under the key.
C10_SkipCacheBypassesRead ==
    (m.skip_cache /\ GivenSomething) =>
        /\ m.out.reads = <<>>
        /\ ~m.out.hit
        /\ m.out.tried =
               try_fetchers(FETCHERS, 1, NormIsin, NormTicker, world, m.net_up).tried
        /\ m.out.result =
               try_fetchers(FETCHERS, 1, NormIsin, NormTicker, world, m.net_up).result

\* skip_cache with a store that held a different record under the key.
C10_Witness ==
    /\ m.skip_cache /\ m.has_db /\ GivenSomething
    /\ NormKey \in DOMAIN m.pre
    /\ m.out.result # None
    /\ m.out.tried # <<>>
    /\ to_dict(m.out.result[1]) # m.pre[NormKey]

\* C11 as stated: a call without bypass, repeated, never calls a fetcher the
\* second time.
C11_SecondCallNeverFetches ==
    (GivenSomething /\ ~m.skip_cache) =>
        \A net_up \in BOOLEAN : Repeat(net_up).tried = <<>>

\* C11, amended: when a store is supplied and a call without bypass returns
\* a record, the same call repeated is a cache hit: it reads the store once,
\* calls no fetcher and saves nothing, so the chain ran at most once.
C11_SecondCallIsHitAfterSuccess ==
    (GivenSomething /\ m.has_db /\ ~m.skip_cache /\ m.out.result # None) =>
        \A net_up \in BOOLEAN :
            /\ Repeat(net_up).hit
            /\ Repeat(net_up).tried = <<>>
            /\ Repeat(net_up).reads = <<NormKey>>
            /\ Repeat(net_up).saves = <<>>
            /\ Repeat(net_up).result # None

\* The first call missed and fetched; repeated with the network down it is
\* answered from the store.
C11_Witness ==
    /\ GivenSomething /\ m.has_db /\ ~m.skip_cache
    /\ ~m.out.hit
    /\ m.out.tried # <<>>
    /\ m.out.result # None
    /\ Repeat(FALSE).hit
    /\ Repeat(FALSE).tried = <<>>

\* Two identifiers that differ at most in letter case and surrounding blanks.
SameIdentifier(a, b) ==
    \/ a = None /\ b = None
    \/ a # None /\ b # None /\ Strip(Upper(a[1])) = Strip(Upper(b[1]))

FetchOf(i) == fetch(FETCHERS[i], NormIsin, NormTicker, world, m.net_up)

\* The fetchers and the last call's identifiers, fetcher by fetcher:
\*   applicable  the positions of the fetchers that accept the identifiers,
\*   answering   those among them whose fetch gives a record,
\*   raising     those among them whose fetch raises,
\*   record      the record of the first answering fetcher (None: there is none),
\*   calls       the accepting fetchers up to the first answering one.
Chain ==
    LET isin       == NormIsin
        ticker     == NormTicker
        applicable == {i \in DOMAIN FETCHERS : can_handle(FETCHERS[i], isin, ticker)}
        outcome    == [i \in applicable |->
                          fetch(FETCHERS[i], isin, ticker, world, m.net_up)]
        answering  == {i \in applicable : outcome[i] # None /\ ~IsRaised(outcome[i])}
        first      == CHOOSE i \in answering : \A j \in answering : i <= j
    IN  [applicable |-> applicable,
         answering  |-> answering,
         raising    |-> {i \in applicable : IsRaised(outcome[i])},
         record     |-> IF answering = {} THEN None ELSE outcome[first],
         calls      |-> IF answering = {} THEN applicable
                        ELSE {i \in applicable : i <= first}]

\* The positions of the fetchers called by the last call.
Tried == {m.out.tried[j] : j \in DOMAIN m.out.tried}

\* C13: a call without a store reads no store, saves nothing, leaves the
\* store alone, raises nothing, calls the fetchers and returns what the chain
\* gives; so does the same call repeated.
C13_NoStoreIsPassThrough ==
    (GivenSomething /\ ~m.has_db) =>
        /\ m.out.reads = <<>>
        /\ m.out.saves = <<>>
        /\ store = m.pre
        /\ ~m.out.raised
        /\ ~m.out.hit
        /\ LET chain == Chain
           IN  Tried = chain.calls /\ m.out.result = chain.record
        /\ LET again == Repeat(m.net_up)
           IN  again.tried = m.out.tried /\ again.result = m.out.result

\* A call without a store that fetched a record although the store, unused,
\* holds a different one under the key.
C13_Witness ==
    /\ GivenSomething /\ ~m.has_db /\ ~m.skip_cache
    /\ NormKey \in DOMAIN store
    /\ m.out.result # None
    /\ to_dict(m.out.result[1]) # store[NormKey]
    /\ m.out.tried # <<>>

\* The last call went through the fetcher loop and returned normally.
Resolved == GivenSomething /\ ~m.out.hit /\ ~m.out.raised

CanHandleIsSafe ==
    \A i \in DOMAIN FETCHERS : ~can_handle_raises(FETCHERS[i], NormIsin, NormTicker)

C16_NoEntryPointRaises ==
    /\ ~m.out.raised
    /\ f.op = "is_supported_isin" => ~IsRaised(f.out)

\* A call during which a fetcher raised and the network was down, and which
\* still returned normally.
C16_Witness ==
    /\ GivenSomething /\ ~m.out.hit /\ ~m.net_up
    /\ Chain.raising # {}
    /\ ~m.out.raised
    /\ m.out.result = None

\* The three ways get_etf_metadata raises: the store read or save fails, a
\* stored row has no isin, a registered fetcher's can_handle raises.
RaisedByStore == m.out.raised /\ ~m.db_up /\ m.has_db /\ CanHandleIsSafe

RaisedByRow ==
    /\ m.out.raised /\ m.db_up /\ m.out.hit
    /\ from_dict_raises(m.pre[NormKey])

RaisedByCanHandle == m.out.raised /\ m.db_up /\ ~m.out.hit /\ ~CanHandleIsSafe

\* ----------------------------------- properties of fetchers and records

\* The document the server answers the last direct Vanguard call with does
\* not yield a text.
DocumentFails ==
    world.doc \in {Doc404, DocNotPdf, DocNoPypdf, DocUnreadable, DocBlank}

\* C17: the fetch of a built-in fetcher never raises; a download error, a
\* response that is not a PDF with status 200, a missing PDF library, an
\* unreadable document and an exception of the upstream API give None.
C17_FetchNeverRaises ==
    f.op = "fetch" =>
        /\ ~IsRaised(f.out)
        /\ ~f.net_up => f.out = None
        /\ (f.fetcher = VanguardFetcher /\ DocumentFails) => f.out = None
        /\ (f.fetcher # VanguardFetcher /\ world.info = InfoNoType) => f.out = None

\* The document fetcher met an unreadable document for an ISIN it serves,
\* with the network up, and returned None.
C17_Witness ==
    /\ f.op = "fetch"
    /\ f.fetcher = VanguardFetcher
    /\ f.isin = Some(<<"I", "E", "1">>)
    /\ f.net_up
    /\ world.doc = DocUnreadable
    /\ f.out = None

\* A record, or a record's dictionary, with a name or an expense ratio.
Usable(d) == Truthy(Get(d, "name")) \/ Get(d, "ter") # None

\* C18: every record the gateway returns from the fetcher loop and every
\* dictionary it passes to the store's save has a name or an expense ratio,
\* whichever fetchers are registered.
C18_OnlyUsableRecords ==
    /\ (GivenSomething /\ ~m.out.hit /\ m.out.result # None) => Usable(m.out.result[1])
    /\ \A j \in DOMAIN m.out.saves : Usable(m.out.saves[j].data)

\* A record returned and saved that is usable by its name alone.
C18_Witness ==
    /\ GivenSomething /\ ~m.out.hit /\ m.has_db /\ m.db_up
    /\ m.out.result # None
    /\ m.out.result[1].ter = None
    /\ Truthy(m.out.result[1].name)
    /\ Len(m.out.saves) = 1
    /\ store[NormKey] = to_dict(m.out.result[1])

\* C19: a record that a fetcher produced, serialized with to_dict, saved,
\* read back and rebuilt with from_dict, has every non-null entry of the
\* record again: the dataclass fields and, for an equity record, quote type,
\* sector, industry, country, market cap, P/E and dividend yield.
C19_RoundTripReproduces ==
    f.op = "round_trip" =>
        /\ f.read = Some(f.saved)
        /\ f.back # None
        /\ \A k \in DOMAIN f.saved :
               f.saved[k] # None =>
                   /\ k \in DOMAIN to_dict(f.back[1])
                   /\ to_dict(f.back[1])[k] = f.saved[k]

\* A fund record with an expense ratio came back whole.
C19_Witness ==
    /\ f.op = "round_trip"
    /\ f.record.stock_info = None
    /\ f.record.ter # None
    /\ f.back = Some(f.record)

\* The part of C19 that holds for every record: the dataclass fields.
C19_FieldsReproduced ==
    f.op = "round_trip" =>
        /\ f.back # None
        /\ \A k \in Fields : f.back[1][k] = f.record[k]

\* C20: the dictionary to_dict produces has no key whose value is None; for
\* a record without expense ratio it has no key ter.
C20_ToDictOmitsNulls ==
    f.op = "round_trip" =>
        /\ \A k \in DOMAIN f.saved : f.saved[k] # None
        /\ f.record.ter = None => "ter" \notin DOMAIN f.saved

\* A record without expense ratio was serialized.
C20_Witness ==
    /\ f.op = "round_trip"
    /\ f.record.ter = None
    /\ Truthy(f.record.name)
    /\ f.saved = to_dict(f.record)

\* The dictionary restricted to the keys that are fields of the record.
Recognized(data) == [k \in DOMAIN data \cap Fields |-> data[k]]

\* C21: from_dict of a dictionary gives what from_dict of the dictionary
\* restricted to the recognized fields gives, field by field the values of
\* the dictionary; it fails only when isin is missing, never because of a key
\* that is not a field.
C21_FromDictIgnoresUnknownKeys ==
    f.op = "from_dict" =>
        /\ f.out = from_dict_call(Recognized(f.data))
        /\ IsRaised(f.out) <=> "isin" \notin DOMAIN f.data
        /\ ~IsRaised(f.out) =>
               /\ \A k \in Fields : f.out[1][k] = Get(f.data, k)
               /\ f.out[1].stock_info = None

\* A dictionary with keys that are no fields gave a record.
C21_Witness ==
    /\ f.op = "from_dict"
    /\ DOMAIN f.data \ Fields # {}
    /\ ~IsRaised(f.out)
    /\ f.out[1].isin = Some(<<"I", "E", "1">>)
    /\ f.out[1].name = None

\* The registry position the fetcher just registered must have: the end
\* with a negative priority, the index given otherwise (the end when the
\* index is beyond it).  Positions count from 1.
RegisteredAt ==
    IF f.priority < 0 \/ f.priority > Len(f.pre) THEN Len(f.pre) + 1
    ELSE f.priority + 1

\* Positions of the old registry as positions of the new one.
Shifted(tried) ==
    [j \in DOMAIN tried |-> IF tried[j] < RegisteredAt THEN tried[j] ELSE tried[j] + 1]

\* What the loop must do on the new registry, given what it did on the old:
\* nothing changes when an earlier fetcher answered; otherwise the new
\* fetcher is asked in its turn, and its record ends the loop.
ResolvesAtPosition(isin, ticker, net_up) ==
    LET old    == try_fetchers(f.pre, 1, isin, ticker, world, net_up)
        new    == try_fetchers(FETCHERS, 1, isin, ticker, world, net_up)
        before == SelectSeq(old.tried, LAMBDA q : q < RegisteredAt)
        after  == SelectSeq(old.tried, LAMBDA q : q >= RegisteredAt)
        mine   == CatchAll(fetch(f.fetcher, isin, ticker, world, net_up))
    IN  IF old.result # None /\ after = <<>>
        THEN new.tried = old.tried /\ new.result = old.result
        ELSE IF ~can_handle(f.fetcher, isin, ticker)
        THEN new.tried = Shifted(old.tried) /\ new.result = old.result
        ELSE IF mine # None
        THEN new.tried = before \o <<RegisteredAt>> /\ new.result = mine
        ELSE /\ new.tried = before \o <<RegisteredAt>> \o Shifted(after)
             /\ new.result = old.result

\* C22: register_fetcher makes the registry one longer, with the new fetcher
\* last when the priority is the default, at index priority otherwise (last
\* when the index is beyond the end), and the fetchers registered before in
\* their old order; the loop then asks the new fetcher at that position.
C22_RegisterKeepsOrder ==
    f.op = "register_fetcher" =>
        /\ Len(FETCHERS) = Len(f.pre) + 1
        /\ f.priority = -1 => FETCHERS[Len(FETCHERS)] = f.fetcher
        /\ (f.priority >= 0 /\ f.priority <= Len(f.pre)) =>
               FETCHERS[f.priority + 1] = f.fetcher
        /\ f.priority > Len(f.pre) => FETCHERS[Len(FETCHERS)] = f.fetcher
        /\ \A i \in DOMAIN f.pre :
               FETCHERS[IF i < RegisteredAt THEN i ELSE i + 1] = f.pre[i]
        /\ (\A i \in DOMAIN FETCHERS : ~can_handle_raises(FETCHERS[i], None, None)) =>
               \A isin \in GatewayIsins, ticker \in GatewayTickers, net_up \in BOOLEAN :
                   ResolvesAtPosition(normalize(isin), normalize(ticker), net_up)

\* A fetcher registered with priority 2 sits third, between the built-in
\* ones, and answers an identifier the two fetchers before it fail on.
C22_Witness ==
    /\ f.op = "register_fetcher"
    /\ f.priority = 2
    /\ FETCHERS[3] = f.fetcher
    /\ FETCHERS[2] = YFinanceFetcher(TRUE)
    /\ FETCHERS[4] = StockInfoFetcher
    /\ LET new == try_fetchers(FETCHERS, 1, Some(<<"I", "E", "1">>), Some(<<"V">>),
                               world, TRUE)
       IN  new.tried = <<1, 2, 3>> /\ new.result = Some(NamedRecord)

\* C23: whatever the interleaving of two get_prices calls, the expiry and
\* the data of every cache entry were assigned by the same fetch, and the
\* entry is a whole one: the data is a quote of its symbol and the expiry is
\* later than the start of that fetch.
C23_EntryWrittenByOneFetch ==
    \A s \in DOMAIN price_cache :
        /\ s \in DOMAIN written
        /\ written[s].expiry = written[s].data
        /\ price_cache[s].data.symbol = s
        /\ price_cache[s].expiry > written[s].data.at

\* Both threads fetched A; one has assigned its entry, the other is about to
\* overwrite it with its own.
C23_Witness ==
    /\ threads[1].pc = "writing"
    /\ threads[2].pc = "writing"
    /\ threads[1].todo # <<>>
    /\ Head(threads[1].todo).symbol = "A"
    /\ "A" \in DOMAIN price_cache
    /\ written["A"].data = threads[2].tag
    /\ threads[2].tag.at > threads[1].tag.at
    /\ price_cache["A"].data # threads[1].resp["A"]

\* This step is a get_prices call.
IsGetPrices == call = NoCall /\ call' # NoCall

\* One step of the life of the cache entries:
\*   an entry is never removed;
\*   an entry appears or changes only in a get_prices call that fetched the
\*   symbol, as a whole new entry that is unexpired;
\*   an unexpired entry expires only in a step of the clock;
\*   a call without force_refresh refetches a cached symbol exactly when its
\*   entry is expired and the market is open, and serves an expired entry
\*   while the market is closed as it serves an unexpired one: the cached
\*   record, the entry untouched.
LifecycleStep ==
    /\ DOMAIN price_cache \subseteq DOMAIN price_cache'
    /\ \A s \in DOMAIN price_cache' :
           (s \notin DOMAIN price_cache \/ price_cache'[s] # price_cache[s]) =>
               /\ IsGetPrices
               /\ s \in Range(call'.batch) \ call'.bad
               /\ price_cache'[s] = [expiry |-> now + PRICE_TTL, data |-> Quote(s, now)]
               /\ now' < price_cache'[s].expiry
    /\ \A s \in DOMAIN price_cache :
           (now < price_cache[s].expiry /\ now' >= price_cache'[s].expiry) =>
               /\ now' = now + 1
               /\ price_cache' = price_cache
               /\ call' = call
    /\ IsGetPrices =>
           \A i \in DOMAIN call'.req :
               LET s == call'.req[i]
               IN  (s \in DOMAIN price_cache /\ ~call'.force) =>
                       /\ s \in Range(call'.batch) <=>
                              (now >= price_cache[s].expiry /\ market_open)
                       /\ ~market_open =>
                              /\ call'.result[i] = price_cache[s].data
                              /\ price_cache'[s] = price_cache[s]

Count(seq, s) == Cardinality({i \in DOMAIN seq : seq[i] = s})

\* C25: within one get_prices call a symbol is named by at most one batch
\* request and at most one individual request, the latter only after the
\* batch failed; a symbol whose fetch failed is reported unavailable by this
\* call, its cache entry is as before, and where it had none the next call
\* requests it again.
C25_NoRetryWithinCall ==
    /\ \A s \in Symbols :
           /\ Count(call.batch, s) <= 1
           /\ Count(call.singles, s) <= 1
           /\ Count(call.singles, s) = 1 => (call.raised /\ Count(call.batch, s) = 1)
    /\ \A i \in DOMAIN call.req :
           LET s == call.req[i]
           IN  (s \in Range(call.batch) \cap call.bad) =>
                   /\ call.result[i] = UnavailableRecord(s)
                   /\ s \in DOMAIN call.pre =>
                          (s \in DOMAIN price_cache /\ price_cache[s] = call.pre[s])
                   /\ s \notin DOMAIN call.pre =>
                          /\ s \notin DOMAIN price_cache
                          /\ \A open \in BOOLEAN :
                                 ToFetch(price_cache, <<s>>, FALSE, now, open) = <<s>>

\* The batch failed, one symbol failed again on its own after exactly one
\* individual request and has no entry, the other one was fetched.
C25_Witness ==
    /\ call.raised
    /\ Len(call.singles) = 2
    /\ \E s, u \in Range(call.singles) :
          /\ s \in call.bad
          /\ Count(call.singles, s) = 1
          /\ s \notin DOMAIN price_cache
          /\ u \notin call.bad
          /\ price_cache[u].data = Quote(u, call.at)

\* The last call made once more, forced through the fetcher loop, with the
\* registry, the upstream services and the network as they are.
Rerun ==
    get_etf_metadata(m.isin, m.ticker, m.has_db, TRUE, store, FETCHERS, world,
                     m.net_up, TRUE)

C27_NoIdentifierNoWork ==
    (m # NoMetaCall /\ ~Truthy(m.isin) /\ ~Truthy(m.ticker)) =>
        /\ m.out.result = None
        /\ ~m.out.raised
        /\ ~m.out.hit
        /\ m.out.reads = <<>>
        /\ m.out.saves = <<>>
        /\ m.out.tried = <<>>
        /\ store = m.pre

\* Two empty strings, a store with rows, a registered fetcher that accepts
\* any identifiers and returns a record: the call returned None.
C27_Witness ==
    /\ m # NoMetaCall
    /\ m.isin = Some(<<>>)
    /\ m.ticker = Some(<<>>)
    /\ m.has_db /\ ~m.skip_cache
    /\ store # <<>>
    /\ FETCHERS[1] = StubFetcher(Some(TRUE), Some(NamedRecord))
    /\ m.out.result = None

\* The string starts with the two letters, in either case.
HasPrefix(s, upper) ==
    /\ Len(s) >= 2
    /\ UpperChar(s[1]) = upper[1]
    /\ UpperChar(s[2]) = upper[2]

\* C28: is_supported_isin gives true exactly when the ISIN is not empty and
\* some registered fetcher's can_handle accepts it, upper-cased and trimmed,
\* with no ticker; with the default registry that is exactly for an IE or a
\* US prefix in either letter case, and false for None, the empty string and
\* any other prefix.
C28_SupportedIffSomeFetcherAccepts ==
    (f.op = "is_supported_isin" /\ ~IsRaised(f.out)) =>
        /\ f.out = Some(/\ Truthy(f.isin)
                       /\ \E i \in DOMAIN FETCHERS :
                              can_handle(FETCHERS[i], Some(Strip(Upper(f.isin[1]))), None))
        /\ FETCHERS = DefaultFetchers =>
               f.out = Some(/\ Truthy(f.isin)
                            /\ \/ HasPrefix(Strip(f.isin[1]), <<"I", "E">>)
                               \/ HasPrefix(Strip(f.isin[1]), <<"U", "S">>))

\* A US ISIN in lower case is supported by the default registry, where the
\* first fetcher declines it.
C28_Witness ==
    /\ f.op = "is_supported_isin"
    /\ f.isin = Some(<<"u", "s", "1">>)
    /\ FETCHERS = DefaultFetchers
    /\ ~can_handle(FETCHERS[1], Some(<<"U", "S", "1">>), None)
    /\ f.out = Some(TRUE)

\* C29: the document fetcher's can_handle is true exactly when an ISIN is
\* given that starts with IE in either letter case; the ticker makes no
\* difference, and the call leaves the registry and the store as they were.
C29_DocumentCanHandleIsPrefixTest ==
    (f.op = "can_handle" /\ f.fetcher = VanguardFetcher) =>
        /\ f.out = (Truthy(f.isin) /\ HasPrefix(f.isin[1], <<"I", "E">>))
        /\ \A ticker \in TickerInputs : can_handle(f.fetcher, f.isin, ticker) = f.out
        /\ FETCHERS = f.registry
        /\ store = f.rows

\* A lower-case IE ISIN without a ticker is accepted.
C29_Witness ==
    /\ f.op = "can_handle"
    /\ f.fetcher = VanguardFetcher
    /\ f.isin = Some(<<"i", "e", "1">>)
    /\ f.ticker = None
    /\ f.out

\* What yfinance reports for the ticker of the last direct fetch, and what
\* the API fetcher is to make of it: the quote type in upper case (empty
\* when none is reported), whether the classification passes, the name.
Reported == yf_info(f.ticker, world, TRUE)[1]

ReportedType ==
    IF Get(Reported, "quoteType") = None THEN <<>>
    ELSE Upper(Reported.quoteType[1])

ClassificationPasses == ~f.fetcher.etf_only \/ ReportedType = <<"E", "T", "F">>

ReportedName == Or(Get(Reported, "longName"), Get(Reported, "shortName"))

\* The last direct call was a fetch of the API fetcher that got an answer.
ApiFetch ==
    /\ f.op = "fetch"
    /\ f.fetcher.cls = "YFinanceFetcher"
    /\ Truthy(f.ticker)
    /\ f.net_up

\* C30: the API fetcher with etf_only returns None for every security whose
\* quote type is not ETF, without etf_only it accepts every quote type, and
\* in both modes it returns a record exactly when the classification passes
\* and a long or short name is reported; the record has that name, and its
\* expense ratio is unset when none is reported.
C30_RecordIffClassifiedAndNamed ==
    ApiFetch =>
        /\ f.out # None <=> (ClassificationPasses /\ Truthy(ReportedName))
        /\ f.out # None =>
               /\ f.out[1].name = ReportedName
               /\ Get(Reported, "netExpenseRatio") = None => f.out[1].ter = None

\* A fund with a name and no expense ratio, fetched with etf_only: the
\* record is returned with ter unset.
C30_Witness ==
    /\ ApiFetch
    /\ f.fetcher.etf_only
    /\ world.info = InfoNoRatio
    /\ f.out # None
    /\ f.out[1].name = Some(<<"S">>)
    /\ f.out[1].ter = None

\* The part of C30 that holds: for every answer whose quote type is a string
\* or is missing.
C30_HoldsForStringTypes ==
    (ApiFetch /\ ~quote_type_raises(Reported)) =>
        /\ f.out # None <=> (ClassificationPasses /\ Truthy(ReportedName))
        /\ f.out # None =>
               /\ f.out[1].name = ReportedName
               /\ Get(Reported, "netExpenseRatio") = None => f.out[1].ter = None

\* ------------------------------------------- properties of the KID parser

ParserCall == f.op = "parse_kid_text"

\* Some TER pattern matches the text.
HasTer(text) == \E i \in DOMAIN text.ter : text.ter[i] # None

\* The upstream world in which the server answers the fund's URL with a PDF
\* whose text is the given one.
Serving(text) ==
    [doc |-> [status |-> 200, head |-> "%PDF", pages |-> Some(text)], info |-> InfoETF]

\* C31: the parser returns a record if and only if some TER pattern matched
\* the text, whatever else it found; and VanguardFetcher.fetch of a document
\* with that text returns what the parser returned, so a document without an
\* expense ratio makes the whole fetch return None.
C31_RecordIffExpenseRatio ==
    ParserCall =>
        /\ f.out # None <=> HasTer(f.text)
        /\ Vanguard_fetch(f.isin, f.ticker, Serving(f.text), TRUE) = f.out

\* A text with a name, a risk level and both policies but no expense ratio:
\* nothing is returned.
C31_Witness ==
    /\ ParserCall
    /\ ~HasTer(f.text)
    /\ f.text.name # None
    /\ f.text.risk[1] = Some("4")
    /\ f.text.accumulating /\ f.text.physical
    /\ f.out = None

\* The digits a risk pattern may capture that are a risk level.
RiskLevels == {Some("1"), Some("2"), Some("3"), Some("4"), Some("5"), Some("6"), Some("7")}

\* C32: the risk level of every record the parser returns is unset or an
\* integer from 1 to 7; it is unset exactly when no risk pattern captured a
\* number in that range, so a captured 8 or 0 is passed over without an error.
C32_RiskLevelInRange ==
    (ParserCall /\ HasTer(f.text)) =>
        /\ ~IsRaised(f.out)
        /\ f.out # None
        /\ f.out[1].risk_level = None \/ f.out[1].risk_level[1] \in 1..7
        /\ f.out[1].risk_level = None <=>
               \A i \in DOMAIN f.text.risk : f.text.risk[i] \notin RiskLevels

\* "8 out of 7" is all the text says about risk: the record is returned
\* with the risk level unset.
C32_Witness ==
    /\ ParserCall
    /\ f.text.risk = <<Some("8"), None>>
    /\ f.out # None
    /\ f.out[1].risk_level = None
    /\ f.out[1].ter = Some(1900)

\* The number a captured TER reads as, in units of 1e-4.
Reading(capture) ==
    CASE capture = Some(<<"0", ".", "1", "9">>) -> 1900
      [] capture = Some(<<"0", ",", "1", "9">>) -> 1900
      [] capture = Some(<<"1", ".", "5", "0">>) -> 15000

\* The earliest-listed TER pattern that matches.
EarliestTer(text) ==
    CHOOSE i \in DOMAIN text.ter :
        text.ter[i] # None /\ \A j \in 1..(i - 1) : text.ter[j] = None

\* The earliest-listed risk pattern that captures a risk level.
EarliestRisk(text) ==
    CHOOSE i \in DOMAIN text.risk :
        text.risk[i] \in RiskLevels /\ \A j \in 1..(i - 1) : text.risk[j] \notin RiskLevels

\* C33: the TER of the record is the number captured by the earliest-listed
\* matching pattern, a decimal comma read as a decimal point; what later
\* patterns capture makes no difference.  Likewise the risk level is the
\* number of the earliest-listed pattern that captures a level from 1 to 7.
C33_FirstMatchingPatternWins ==
    (ParserCall /\ HasTer(f.text)) =>
        /\ f.out # None
        /\ f.out[1].ter = Some(Reading(f.text.ter[EarliestTer(f.text)]))
        /\ (\E i \in DOMAIN f.text.risk : f.text.risk[i] \in RiskLevels) =>
               f.out[1].risk_level = Some(DigitVal(f.text.risk[EarliestRisk(f.text)][1]))

\* The first pattern does not match, the second captures "0,19", the third
\* "1.50": the TER is 0.19.
C33_Witness ==
    /\ ParserCall
    /\ f.text.ter = <<None, Some(<<"0", ",", "1", "9">>), Some(<<"1", ".", "5", "0">>)>>
    /\ f.out # None
    /\ f.out[1].ter = Some(1900)

\* The text with other words about replication.
WithReplication(text, physical, synthetic) ==
    [text EXCEPT !.physical = physical, !.synthetic = synthetic]

\* The text with other words about distribution.
WithDistribution(text, accumulating, distributing) ==
    [text EXCEPT !.accumulating = accumulating, !.distributing = distributing]

\* The record parsed from a text, with the identifiers of the call.
Parsed(text) == parse_kid_text(text, f.isin, f.ticker, build_url(f.isin[1]))[1]

\* C34: distribution is Accumulating when "accumulating" occurs, otherwise
\* Distributing when "distributing" occurs, otherwise unset; replication is
\* Physical when "physical" occurs, otherwise Synthetic when "synthetic"
\* occurs, otherwise unset; neither field changes with the other's words.
C34_PoliciesResolvedIndependently ==
    (ParserCall /\ HasTer(f.text)) =>
        /\ f.out[1].distribution =
               (IF f.text.accumulating THEN Some("Accumulating")
                ELSE IF f.text.distributing THEN Some("Distributing") ELSE None)
        /\ f.out[1].replication =
               (IF f.text.physical THEN Some("Physical")
                ELSE IF f.text.synthetic THEN Some("Synthetic") ELSE None)
        /\ \A a \in BOOLEAN, b \in BOOLEAN :
               /\ Parsed(WithReplication(f.text, a, b)).distribution = f.out[1].distribution
               /\ Parsed(WithDistribution(f.text, a, b)).replication = f.out[1].replication

\* All four words occur: the first check of each pair wins.
C34_Witness ==
    /\ ParserCall
    /\ f.text.accumulating /\ f.text.distributing
    /\ f.text.physical /\ f.text.synthetic
    /\ f.out # None
    /\ f.out[1].distribution = Some("Accumulating")
    /\ f.out[1].replication = Some("Physical")

\* ------------------------------------- properties of the document fetcher

DocumentFetch == f.op = "fetch" /\ f.fetcher = VanguardFetcher

\* The URL of the fund ie1, which is the one the server holds a document for.
UrlOfIe1 ==
    [base |-> "https://fund-docs.vanguard.com", doc |-> <<"i", "e", "1">>,
     rest |-> "_priipskid_en.pdf"]

\* The ISIN, as the caller wrote it, is ie1 in some letter case.
NamesIe1(isin) ==
    isin \in {Some(<<"I", "E", "1">>), Some(<<"i", "e", "1">>)}

\* C35: the document fetcher returns a record only when the response has
\* status 200 and starts with the PDF signature, and then the URL it asked
\* for is the template filled with the lower-cased ISIN, whatever the ticker;
\* with any other response it returns None.  A 200 response with the
\* signature and a full text for that URL gives a record.
C35_OnlySignedOkResponsesParsed ==
    DocumentFetch =>
        /\ ~IsRaised(f.out)
        /\ f.out # None =>
               /\ world.doc.status = 200
               /\ world.doc.head = "%PDF"
               /\ NamesIe1(f.isin)
               /\ f.out[1].source_url = Some(UrlOfIe1)
        /\ (f.net_up /\ NamesIe1(f.isin) /\ world.doc.status = 200
                /\ world.doc.head = "%PDF") => f.out # None

\* The server answers 500 with a body that starts with the PDF signature:
\* nothing is returned.
C35_Witness ==
    /\ DocumentFetch
    /\ f.net_up
    /\ f.isin = Some(<<"I", "E", "1">>)
    /\ world.doc.status = 500
    /\ world.doc.head = "%PDF"
    /\ f.out = None

\* ---------------------------------------- properties of the stock fetcher

\* The stock fetcher was called directly and returned a record.
StockRecord ==
    /\ f.op = "fetch"
    /\ f.fetcher = StockInfoFetcher
    /\ f.out # None

\* The number the digit groups of a comma-separated numeral stand for.
RECURSIVE GroupsValue(_)
GroupsValue(groups) ==
    IF groups = <<>> THEN 0
    ELSE 1000 * GroupsValue(SubSeq(groups, 1, Len(groups) - 1)) + groups[Len(groups)]

\* shown, a number of hundredths, is cap / unit rounded to two decimals.
RoundsTo(shown, cap, unit) ==
    /\ 2 * (cap - shown * unit) <= unit
    /\ 2 * (shown * unit - cap) <= unit

\* C36: the market cap of a stock record is unset when yfinance reports none
\* or zero; otherwise it carries the suffix of the first threshold the cap
\* reaches (10^12: T, 10^9: B, 10^6: M) with the cap divided by that
\* threshold to two decimals, and below 10^6 it is the whole dollars in
\* groups of three digits.  3,000,000,000,000 gives 3.00 T.
C36_MarketCapByFirstThreshold ==
    StockRecord =>
        LET cap   == Get(world.info, "marketCap")
            shown == f.out[1].stock_info[1].market_cap
        IN  /\ shown = None <=> (cap = None \/ cap = Some(0))
            /\ shown # None =>
                 /\ shown[1].suffix =
                        (IF cap[1] >= 100000000 THEN "T"
                         ELSE IF cap[1] >= 100000 THEN "B"
                         ELSE IF cap[1] >= 100 THEN "M" ELSE "")
                 /\ shown[1].suffix = "T" => RoundsTo(shown[1].shown, cap[1], 1000000)
                 /\ shown[1].suffix = "B" => RoundsTo(shown[1].shown, cap[1], 1000)
                 /\ shown[1].suffix = "M" => RoundsTo(shown[1].shown, cap[1], 1)
                 /\ shown[1].suffix = "" =>
                        /\ GroupsValue(shown[1].shown) = cap[1] * 10000
                        /\ \A i \in 2..Len(shown[1].shown) : shown[1].shown[i] < 1000
                        /\ shown[1].shown[1] > 0
            /\ cap = Some(300000000) => shown = Some([shown |-> 300, suffix |-> "T"])

\* A cap of exactly 10^12 dollars is shown as 1.00 T.
C36_Witness ==
    /\ StockRecord
    /\ Get(world.info, "marketCap") = Some(100000000)
    /\ f.out[1].stock_info[1].market_cap = Some([shown |-> 100, suffix |-> "T"])

\* ------------------------------------ properties of the default registry

\* The last call had an ISIN and no ticker, met the default registry and
\* was not answered from the store.
IsinOnly ==
    /\ m # NoMetaCall
    /\ FETCHERS = DefaultFetchers
    /\ Truthy(NormIsin)
    /\ ~Truthy(NormTicker)
    /\ ~m.out.hit

\* C37: with the default registry, a call with an ISIN and no ticker that is
\* not answered from the store gets a record from the document fetcher or
\* none at all: for an ISIN without the IE prefix the result is None, nothing
\* is saved and the store is as before, also for a US ISIN, which
\* is_supported_isin reports as supported.
C37_IsinOnlyNeedsDocumentFetcher ==
    IsinOnly =>
        /\ ~m.out.raised
        /\ m.out.result # None =>
               /\ HasPrefix(NormIsin[1], <<"I", "E">>)
               /\ m.out.tried[Len(m.out.tried)] = 1
        /\ ~HasPrefix(NormIsin[1], <<"I", "E">>) =>
               /\ m.out.result = None
               /\ m.out.saves = <<>>
               /\ store = m.pre
        /\ HasPrefix(NormIsin[1], <<"U", "S">>) =>
               is_supported_isin(m.isin, FETCHERS) = Some(TRUE)

\* A US ISIN without a ticker, a store and the network at hand, and a fund
\* that yfinance knows: both API fetchers are called, nothing comes back and
\* nothing is saved, though the ISIN counts as supported.
C37_Witness ==
    /\ IsinOnly
    /\ m.isin = Some(<<"U", "S", "1">>)
    /\ m.has_db /\ m.net_up
    /\ world.info = InfoETF
    /\ m.out.tried = <<2, 4>>
    /\ m.out.result = None
    /\ store = <<>>
    /\ is_supported_isin(m.isin, FETCHERS) = Some(TRUE)

\* What the last fetcher of the default registry gives for the identifiers
\* of the last call, asked on its own.
LastFetcherAlone ==
    fetch(YFinanceFetcher(FALSE), NormIsin, NormTicker, world, m.net_up)

\* The registry position of the fetcher whose record the last call returned.
AnsweredBy == m.out.tried[Len(m.out.tried)]

Without(seq, p) == SubSeq(seq, 1, p - 1) \o SubSeq(seq, p + 1, Len(seq))

\* One step, as far as the registry and the store go: the registry changes
\* only in a register_fetcher call, which adds one fetcher and keeps the
\* others in their order; a get_etf_metadata call leaves the registry as it
\* is, and the store too when it is a cache hit; an is_supported_isin call
\* leaves both as they are.
RegistryStep ==
    /\ FETCHERS' # FETCHERS =>
           /\ f'.op = "register_fetcher"
           /\ Len(FETCHERS') = Len(FETCHERS) + 1
           /\ \E p \in DOMAIN FETCHERS' :
                  FETCHERS'[p] = f'.fetcher /\ Without(FETCHERS', p) = FETCHERS
    /\ (f.op = "none" /\ f'.op = "register_fetcher") =>
           Len(FETCHERS') = Len(FETCHERS) + 1
    /\ (m = NoMetaCall /\ m' # NoMetaCall) =>
           /\ FETCHERS' = FETCHERS
           /\ m'.out.hit => (store' = store /\ m'.out.saves = <<>>)
    /\ (f.op = "none" /\ f'.op = "is_supported_isin") =>
           (FETCHERS' = FETCHERS /\ store' = store)

\* C39: get_etf_metadata and is_supported_isin leave the registry unchanged
\* on every path, a cache hit leaves the store unchanged too, and only
\* register_fetcher changes the registry, by adding one fetcher.
C39_OnlyRegisterChangesRegistry == [][RegistryStep]_vars

\* A cache hit with a registry that a caller has extended: the registry is
\* still the extended one and the store is as before the call.
C39_Witness ==
    /\ m # NoMetaCall
    /\ m.out.hit
    /\ m.out.saves = <<>>
    /\ store = m.pre
    /\ store # <<>>
    /\ Len(FETCHERS) = Len(DefaultFetchers) + 1
    /\ \E p \in DOMAIN FETCHERS :
           FETCHERS[p].cls = "StubFetcher" /\ Without(FETCHERS, p) = DefaultFetchers

\* ---------------------------------------- properties of the FRED provider

FredCall == g.op = "get_series_observations"

\* The key of the last call's series in the cache.
SeriesKey == Upper(g.series_id)

\* When the last call started, the cache held an entry for its series that
\* was written less than 300 seconds before.
YoungEntry ==
    /\ SeriesKey \in DOMAIN g.pre
    /\ g.start - g.pre[SeriesKey].timestamp < 300

\* The API answered the last call's request with a 200 response.
RequestSucceeds == ~IsRaised(g.answer) /\ g.answer[1].status = 200

\* C40: without an API key get_series_observations returns None and neither
\* reads the cache nor makes a request.  With a key it makes no request
\* exactly when the cache holds an entry for the upper-cased series id that
\* is younger than 300 seconds, and then returns that entry's observations;
\* otherwise it makes one request: a successful one puts the observations
\* under the key with the time the call started and returns them, a failed
\* one returns None and leaves the cache as it was.
C40_SeriesCacheServesYoungEntries ==
    FredCall =>
        /\ ~IsRaised(g.out.result)
        /\ ~TruthyStr(g.api_key) =>
               /\ g.out.result = None
               /\ g.out.requests = 0
               /\ g.out.reads = <<>>
               /\ series_cache = g.pre
        /\ TruthyStr(g.api_key) =>
               /\ g.out.requests = 0 <=> YoungEntry
               /\ YoungEntry =>
                      /\ g.out.result = Some(g.pre[SeriesKey].data)
                      /\ series_cache = g.pre
               /\ ~YoungEntry => g.out.requests = 1
               /\ (~YoungEntry /\ RequestSucceeds) =>
                      /\ g.out.result # None
                      /\ g.out.result[1] = Get(g.answer[1].body, "observations")
                      /\ DOMAIN series_cache = DOMAIN g.pre \cup {SeriesKey}
                      /\ series_cache[SeriesKey] =
                             [timestamp |-> g.start, data |-> g.out.result[1]]
                      /\ \A k \in DOMAIN g.pre \ {SeriesKey} : series_cache[k] = g.pre[k]
               /\ (~YoungEntry /\ ~RequestSucceeds) =>
                      /\ g.out.result = None
                      /\ series_cache = g.pre

\* The entry of GDP is exactly 300 seconds old when the series is asked for
\* as "gdp": a request is made, it takes a while and brings other
\* observations, and the entry is replaced with the time the call started.
C40_Witness ==
    /\ FredCall
    /\ g.series_id = <<"g", "d", "p">>
    /\ TruthyStr(g.api_key)
    /\ <<"G", "D", "P">> \in DOMAIN g.pre
    /\ g.start - g.pre[<<"G", "D", "P">>].timestamp = 300
    /\ g.out.requests = 1
    /\ g.out.result = Some(<<"o2", "o1">>)
    /\ g.pre[<<"G", "D", "P">>].data = <<"o1">>
    /\ series_cache[<<"G", "D", "P">>] = [timestamp |-> g.start, data |-> <<"o2", "o1">>]
    /\ clock = g.start + 100

====
